---------------------------- MODULE Spec2Model ----------------------------
(***************************************************************************)
(* Model of the NVML fan manager (src/nvidia_fan_manager.py): the fan      *)
(* curve, the hysteresis gate, configuration normalisation, the per-fan    *)
(* controller sessions, and the daemon loop with its reload and shutdown   *)
(* paths.                                                                  *)
(*                                                                         *)
(* Units.  Python floats are modelled as exact integers counting tenths:   *)
(* temperatures in 0.1 degC, speeds and hysteresis in 0.1 %, the poll      *)
(* interval in 0.1 s.  GPU and fan indices are plain integers.  The value  *)
(* handed to nvmlDeviceSetFanSpeed_v2 is an integer percentage.            *)
(***************************************************************************)
EXTENDS Integers, Sequences, FiniteSets, TLC

VARIABLES
    pc,               \* position of main() / FanManager.run()
    i,                \* index of the for-loop the position is in (1-based)
    mode,             \* "daemon" (--daemon) or "once" (--once)
    restore_on_exit,  \* FanManager.restore_on_exit (not --no-restore-on-exit)
    running,          \* FanManager._running
    reload_requested, \* FanManager._reload_requested
    profiles,         \* FanManager.profiles: sequence of ManagedProfile
    poll_interval,    \* FanManager.poll_interval
    cfg,              \* local cfg of main() / reload_config()
    new_profiles,     \* local list of build_managed_profiles()
    hwlog,            \* library calls of the phase the position is in (the
                      \* startup build, a reload attempt, a polling cycle,
                      \* the closing of the profiles)
    reload_result,    \* outcome of the reload attempt in progress
    snap,             \* FanManager state when the reload attempt began
    stop_at,          \* position at which the first stop signal arrived
    store,            \* what the configuration path may hold when it is read
    fs,               \* the configuration directory and the save_config() calls
                      \* in progress on it
    cmd,              \* locals of command_status() / restore_auto_profiles()
    after_reload,     \* whether the polling cycle follows a successful reload
                      \* in the same iteration of run()
    hup_pending,      \* whether a SIGHUP has arrived that no load_config()
                      \* of a reload has followed yet ("yes", "no"), or
                      \* "untracked"
    monitor,          \* whether hist records the calls
    hist,             \* library calls issued since process start (if monitor)
    probe             \* a pure function applied to drawn inputs

dvars == <<pc, i, mode, restore_on_exit, running, reload_requested, profiles,
           poll_interval, cfg, new_profiles, hwlog, reload_result, snap,
           stop_at, store, fs, cmd, after_reload, hup_pending>>
\* Everything but fs.
nonfs == <<pc, i, mode, restore_on_exit, running, reload_requested, profiles,
           poll_interval, cfg, new_profiles, hwlog, reload_result, snap,
           stop_at, store, cmd, after_reload, hup_pending, monitor, hist,
           probe>>
vars == <<pc, i, mode, restore_on_exit, running, reload_requested, profiles,
          poll_interval, cfg, new_profiles, hwlog, reload_result, snap,
          stop_at, store, fs, cmd, after_reload, hup_pending, monitor, hist,
          probe>>

----------------------------------------------------------------------------
(* Optional values (Python None) and dictionary values of unknown type.    *)

None == <<>>
Some(v) == <<v>>
Get(o) == o[1]

\* A JSON value found under a numeric key: a number, something float()/int()
\* rejects (a string, null, a list), or no such key.
Num(n) == <<"num", n>>
Bad == <<"bad">>
Missing == <<"missing">>
IsNum(x) == x[1] = "num"
\* A JSON value found under a list key: a list or no such key.
List(s) == <<"list", s>>
IsList(x) == x[1] = "list"

Max(a, b) == IF a >= b THEN a ELSE b
Min(a, b) == IF a <= b THEN a ELSE b
Abs(a) == IF a >= 0 THEN a ELSE 0 - a

----------------------------------------------------------------------------
(* Module constants.                                                       *)

DEFAULT_CURVE ==
    List(<< [temperature |-> Num(300), speed |-> Num(250)],
            [temperature |-> Num(400), speed |-> Num(350)],
            [temperature |-> Num(500), speed |-> Num(450)],
            [temperature |-> Num(600), speed |-> Num(600)],
            [temperature |-> Num(700), speed |-> Num(750)],
            [temperature |-> Num(800), speed |-> Num(900)] >>)

DEFAULT_PROFILE ==
    [gpu_index |-> Num(0), fan_index |-> Num(0), curve |-> DEFAULT_CURVE,
     hysteresis |-> Num(20)]

\* A configuration dictionary: the keys the program reads, Missing when the
\* key is absent.
Dict(poll, profs, gpu, fan, curve, hyst) ==
    [poll_interval |-> poll, profiles |-> profs, gpu_index |-> gpu,
     fan_index |-> fan, curve |-> curve, hysteresis |-> hyst]

DEFAULT_CONFIG ==
    Dict(Num(20), List(<<DEFAULT_PROFILE>>), Missing, Missing, Missing, Missing)

\* The floor of the poll interval (0.5 s) and of the hysteresis threshold
\* (0.5 %), and the clamp of a commanded speed (10 % .. 100 %), in tenths.
MinPollInterval == 5
MinThreshold == 5
MinCommand == 100
MaxCommand == 1000
\* The clamp of a curve point's speed at normalisation (0 % .. 100 %).
MinCurveSpeed == 0
MaxCurveSpeed == 1000

----------------------------------------------------------------------------
(* FanCurve.                                                               *)

\* A sort that is not stable: a point goes before the points of the same
\* temperature already placed.
RECURSIVE InsertBeforeTies(_, _)
InsertBeforeTies(sorted, p) ==
    IF sorted = <<>> THEN <<p>>
    ELSE IF Head(sorted).temperature < p.temperature
         THEN <<Head(sorted)>> \o InsertBeforeTies(Tail(sorted), p)
         ELSE <<p>> \o sorted

RECURSIVE SortByTempTiesReversed(_)
SortByTempTiesReversed(points) ==
    IF points = <<>> THEN <<>>
    ELSE InsertBeforeTies(
             SortByTempTiesReversed(SubSeq(points, 1, Len(points) - 1)),
             points[Len(points)])

\* sorted(points, key=temperature): Python's sort is stable; insertion of
\* each point after the points whose key is not greater.
RECURSIVE InsertByTemp(_, _)
InsertByTemp(sorted, p) ==
    IF sorted = <<>> THEN <<p>>
    ELSE IF Head(sorted).temperature <= p.temperature
         THEN <<Head(sorted)>> \o InsertByTemp(Tail(sorted), p)
         ELSE <<p>> \o sorted

RECURSIVE SortByTemp(_)
SortByTemp(points) ==
    IF points = <<>> THEN <<>>
    ELSE InsertByTemp(SortByTemp(SubSeq(points, 1, Len(points) - 1)),
                      points[Len(points)])

\* A curve that keeps the points in the order supplied.
FanCurveUnsorted(points) == points

\* FanCurve.__init__ on a non-empty list of CurvePoint.
FanCurve(points) == SortByTemp(points)

\* The for-loop of FanCurve.value from point k on, chosen being the value so far.
RECURSIVE ValueLoop(_, _, _, _)
ValueLoop(points, k, temperature, chosen) ==
    IF k > Len(points) THEN chosen
    ELSE IF temperature >= points[k].temperature
         THEN ValueLoop(points, k + 1, temperature, points[k].speed)
         ELSE chosen

\* FanCurve.value
value(points, temperature) ==
    ValueLoop(points, 1, temperature, points[1].speed)

----------------------------------------------------------------------------
(* Hysteresis gate and apply.                                              *)

\* A gate that is always open.
should_apply_always(last_speed, hysteresis, target_speed) == TRUE

\* A gate that stays closed at a change equal to the threshold.
should_apply_strict(last_speed, hysteresis, target_speed) ==
    IF last_speed = None THEN TRUE
    ELSE Abs(target_speed - Get(last_speed)) > Max(MinThreshold, hysteresis)

\* FanManager.should_apply
should_apply(last_speed, hysteresis, target_speed) ==
    IF last_speed = None THEN TRUE
    ELSE Abs(target_speed - Get(last_speed)) >= Max(MinThreshold, hysteresis)

\* A clamp without the floor of 10 percent.
ClampCommandNoFloor(target_speed) == Min(MaxCommand, target_speed)

\* FanManager.apply_speed: target_speed = max(10.0, min(100.0, target_speed))
ClampCommand(target_speed) == Max(MinCommand, Min(MaxCommand, target_speed))

\* NvmlController.set_fan_speed: int(round(speed)); Python rounds a half to
\* the even neighbour.
RoundPercent(speed) ==
    LET q == speed \div 10
        r == speed % 10
    IN  IF r < 5 THEN q
        ELSE IF r > 5 THEN q + 1
        ELSE IF q % 2 = 0 THEN q ELSE q + 1

----------------------------------------------------------------------------
(* Configuration normalisation and loading.                                *)

\* dict.get(key, default) for a key that may be absent.
GetOr(x, default) == IF x = Missing THEN default ELSE x

\* The inner loop of normalize_config: the points float() accepts, with the
\* speed clamped to [0, 100].
RECURSIVE NormalizePoints(_)
NormalizePoints(raw) ==
    IF raw = <<>> THEN <<>>
    ELSE LET point == Head(raw)
             rest == NormalizePoints(Tail(raw))
         IN  IF IsNum(point.temperature) /\ IsNum(point.speed)
             THEN <<[temperature |-> point.temperature[2],
                     speed |-> Max(MinCurveSpeed,
                                   Min(MaxCurveSpeed, point.speed[2]))]>>
                  \o rest
             ELSE rest

\* A list of CurvePoint as the list of dictionaries JSON holds.
RECURSIVE PointDicts(_)
PointDicts(points) ==
    IF points = <<>> THEN <<>>
    ELSE <<[temperature |-> Num(Head(points).temperature),
            speed |-> Num(Head(points).speed)]>> \o PointDicts(Tail(points))

\* normalize_config, the curve of one entry.
NormalizeCurve(curve_field) ==
    LET curve_raw == IF IsList(curve_field) /\ curve_field[2] # <<>>
                     THEN curve_field[2] ELSE DEFAULT_CURVE[2]
        curve == NormalizePoints(curve_raw)
        kept == IF curve = <<>> THEN NormalizePoints(DEFAULT_CURVE[2])
                ELSE curve
    IN  List(PointDicts(SortByTemp(kept)))

\* A loop that would keep an entry whose index int() rejects, with the
\* default index.
RECURSIVE NormalizeEntriesKeepingAll(_, _)
NormalizeEntriesKeepingAll(entries, top_hysteresis) ==
    IF entries = <<>> THEN <<>>
    ELSE LET entry == Head(entries)
             gpu == GetOr(entry.gpu_index, DEFAULT_PROFILE.gpu_index)
             fan == GetOr(entry.fan_index, DEFAULT_PROFILE.fan_index)
             hysteresis_raw == GetOr(entry.hysteresis, top_hysteresis)
         IN  <<[gpu_index |-> IF IsNum(gpu) THEN gpu
                              ELSE DEFAULT_PROFILE.gpu_index,
                fan_index |-> IF IsNum(fan) THEN fan
                              ELSE DEFAULT_PROFILE.fan_index,
                curve |-> NormalizeCurve(entry.curve),
                hysteresis |-> IF IsNum(hysteresis_raw) THEN hysteresis_raw
                               ELSE DEFAULT_PROFILE.hysteresis]>>
             \o NormalizeEntriesKeepingAll(Tail(entries), top_hysteresis)

\* normalize_config, the body of the loop over profiles_input: the entries
\* whose indices int() accepts.
RECURSIVE NormalizeEntries(_, _)
NormalizeEntries(entries, top_hysteresis) ==
    IF entries = <<>> THEN <<>>
    ELSE LET entry == Head(entries)
             rest == NormalizeEntries(Tail(entries), top_hysteresis)
             gpu == GetOr(entry.gpu_index, DEFAULT_PROFILE.gpu_index)
             fan == GetOr(entry.fan_index, DEFAULT_PROFILE.fan_index)
             hysteresis_raw == GetOr(entry.hysteresis, top_hysteresis)
             hysteresis == IF IsNum(hysteresis_raw) THEN hysteresis_raw
                           ELSE DEFAULT_PROFILE.hysteresis
         IN  IF IsNum(gpu) /\ IsNum(fan)
             THEN <<[gpu_index |-> gpu, fan_index |-> fan,
                     curve |-> NormalizeCurve(entry.curve),
                     hysteresis |-> hysteresis]>> \o rest
             ELSE rest

\* A poll interval without the floor of 0.5 s.
NormalizePollNoFloor(raw_cfg) ==
    LET given == GetOr(raw_cfg.poll_interval, DEFAULT_CONFIG.poll_interval)
    IN  IF IsNum(given) THEN given[2] ELSE DEFAULT_CONFIG.poll_interval[2]

\* normalize_config, the poll interval.
NormalizePoll(raw_cfg) ==
    LET given == GetOr(raw_cfg.poll_interval, DEFAULT_CONFIG.poll_interval)
        poll == IF IsNum(given) THEN given[2]
                ELSE DEFAULT_CONFIG.poll_interval[2]
    IN  Max(MinPollInterval, poll)

\* normalize_config
normalize_config(raw_cfg) ==
    LET profiles_input ==
            IF IsList(raw_cfg.profiles) /\ raw_cfg.profiles[2] # <<>>
            THEN raw_cfg.profiles[2]
            ELSE <<[gpu_index |-> GetOr(raw_cfg.gpu_index,
                                        DEFAULT_PROFILE.gpu_index),
                    fan_index |-> GetOr(raw_cfg.fan_index,
                                        DEFAULT_PROFILE.fan_index),
                    curve |-> GetOr(raw_cfg.curve, DEFAULT_PROFILE.curve),
                    hysteresis |-> GetOr(raw_cfg.hysteresis,
                                         DEFAULT_PROFILE.hysteresis)]>>
        normalized == NormalizeEntries(
                          profiles_input,
                          GetOr(raw_cfg.hysteresis, DEFAULT_PROFILE.hysteresis))
        normalized_profiles == IF normalized = <<>> THEN <<DEFAULT_PROFILE>>
                               ELSE normalized
    IN  Dict(Num(NormalizePoll(raw_cfg)), List(normalized_profiles),
             Missing, Missing, Missing, Missing)

\* What the configuration path may hold when it is read: no file, or the
\* JSON object raw.
NoFile == <<"nofile">>
File(raw) == <<"file", raw>>

\* load_config on a path whose content parses as JSON.
load_config(content) ==
    IF content = NoFile THEN DEFAULT_CONFIG ELSE normalize_config(content[2])

----------------------------------------------------------------------------
(* The hardware library and the controller sessions.                       *)

\* The machine: GPUs 0 .. NumDevices-1, each with fans 0 .. NumFans-1.
NumDevices == 2
NumFans == 2

\* The temperatures a read may return.  get_temperature() is declared to
\* return a float and loop_once works on any float; NVML fills an unsigned
\* integer, so 45.5 degC is a sample of the declared type that this binding
\* itself does not produce.
Temps == {450, 455, 600}

\* One call into the library, as hwlog records it: the session's GPU and
\* fan, the value passed or returned, and whether the call succeeded.
Call(op, gpu, fan, arg, ok) ==
    [op |-> op, gpu |-> gpu, fan |-> fan, arg |-> arg, ok |-> ok]

\* NvmlController.__init__: the ways it can end.  nvmlInit_v2 can fail; the
\* device lookup fails for an absent device and can fail for a present one;
\* the fan count query can fail; a fan index at or above the count is refused.
OpenOutcomes(gpu, fan) ==
    {"init_failed", "no_device"}
    \cup (IF gpu \in 0..(NumDevices - 1) THEN {"numfans_failed"} ELSE {})
    \cup (IF gpu \in 0..(NumDevices - 1) /\ fan >= NumFans
          THEN {"fan_out_of_range"} ELSE {})
    \cup (IF gpu \in 0..(NumDevices - 1) /\ fan < NumFans
          THEN {"ok"} ELSE {})

\* The calls of NvmlController.__init__ that hwlog records: nvmlInit_v2 and
\* the query that failed, if one did.
OpenCalls(gpu, fan, outcome) ==
    CASE outcome = "init_failed" -> <<Call("nvmlInit", gpu, fan, 0, FALSE)>>
      [] outcome = "no_device" ->
            <<Call("nvmlInit", gpu, fan, 0, TRUE),
              Call("getHandle", gpu, fan, 0, FALSE)>>
      [] outcome = "numfans_failed" ->
            <<Call("nvmlInit", gpu, fan, 0, TRUE),
              Call("getNumFans", gpu, fan, 0, FALSE)>>
      [] outcome = "fan_out_of_range" ->
            <<Call("nvmlInit", gpu, fan, 0, TRUE),
              Call("getNumFans", gpu, fan, NumFans, TRUE)>>
      [] OTHER -> <<Call("nvmlInit", gpu, fan, 0, TRUE)>>

\* FanCurve.from_dicts
RECURSIVE CurvePoints(_)
CurvePoints(items) ==
    IF items = <<>> THEN <<>>
    ELSE <<[temperature |-> Head(items).temperature[2],
            speed |-> Head(items).speed[2]]>> \o CurvePoints(Tail(items))

from_dicts(items) == FanCurve(CurvePoints(items))

\* Whether build_managed_profiles can convert the entry (int(), float(),
\* a non-empty curve).
EntryValid(entry) ==
    /\ IsNum(GetOr(entry.gpu_index, DEFAULT_PROFILE.gpu_index))
    /\ IsNum(GetOr(entry.fan_index, DEFAULT_PROFILE.fan_index))
    /\ IsNum(GetOr(entry.hysteresis, DEFAULT_PROFILE.hysteresis))
    /\ LET curve == GetOr(entry.curve, DEFAULT_CURVE)
       IN  /\ IsList(curve)
           /\ curve[2] # <<>>
           /\ \A k \in 1..Len(curve[2]) :
                 IsNum(curve[2][k].temperature) /\ IsNum(curve[2][k].speed)

\* ManagedProfile(...) as build_managed_profiles creates it.  restore and
\* closes record what close() has done to the profile's controller.
ManagedProfile(entry) ==
    [gpu_index |-> GetOr(entry.gpu_index, DEFAULT_PROFILE.gpu_index)[2],
     fan_index |-> GetOr(entry.fan_index, DEFAULT_PROFILE.fan_index)[2],
     curve |-> from_dicts(GetOr(entry.curve, DEFAULT_CURVE)[2]),
     hysteresis |-> GetOr(entry.hysteresis, DEFAULT_PROFILE.hysteresis)[2],
     last_speed |-> None,
     last_temp |-> None,
     restore |-> "none",
     closes |-> 0]

\* cfg.get("profiles", [])
Entries(c) == IF IsList(c.profiles) THEN c.profiles[2] ELSE <<>>

CloseAbortOnRestoreFailure(p, restore_auto) ==
    IF restore_auto
    THEN { [profile |-> [p EXCEPT !.restore = "ok", !.closes = @ + 1],
            calls |-> <<Call("restoreAuto", p.gpu_index, p.fan_index, 0, TRUE),
                        Call("nvmlShutdown", p.gpu_index, p.fan_index, 0, TRUE)>>],
           [profile |-> [p EXCEPT !.restore = "failed"],
            calls |-> <<Call("restoreAuto", p.gpu_index, p.fan_index, 0, FALSE)>>] }
    ELSE { [profile |-> [p EXCEPT !.closes = @ + 1],
            calls |-> <<Call("nvmlShutdown", p.gpu_index, p.fan_index, 0, TRUE)>>] }

\* ManagedProfile.close: the profile afterwards and the calls made, for
\* each way restore_auto() can end.
Close(p, restore_auto) ==
    IF restore_auto
    THEN { [profile |-> [p EXCEPT !.restore = IF ok THEN "ok" ELSE "failed",
                                  !.closes = @ + 1],
            calls |-> <<Call("restoreAuto", p.gpu_index, p.fan_index, 0, ok),
                        Call("nvmlShutdown", p.gpu_index, p.fan_index, 0, TRUE)>>]
           : ok \in BOOLEAN }
    ELSE { [profile |-> [p EXCEPT !.closes = @ + 1],
            calls |-> <<Call("nvmlShutdown", p.gpu_index, p.fan_index, 0, TRUE)>>] }

\* A cleanup that would hand every fan built so far back to the driver.
RECURSIVE CleanupCallsRestoring(_)
CleanupCallsRestoring(built) ==
    IF built = <<>> THEN <<>>
    ELSE <<Call("restoreAuto", Head(built).gpu_index, Head(built).fan_index,
                0, TRUE),
           Call("nvmlShutdown", Head(built).gpu_index, Head(built).fan_index,
                0, TRUE)>> \o CleanupCallsRestoring(Tail(built))

\* The except clause of build_managed_profiles: close(restore_auto=False) on
\* every profile built so far.
RECURSIVE CleanupCalls(_)
CleanupCalls(built) ==
    IF built = <<>> THEN <<>>
    ELSE <<Call("nvmlShutdown", Head(built).gpu_index, Head(built).fan_index,
                0, TRUE)>> \o CleanupCalls(Tail(built))

----------------------------------------------------------------------------
(* The configurations the store may hand out.                              *)

Point(t, s) == [temperature |-> Num(t), speed |-> Num(s)]
Entry(gpu, fan, curve, hyst) ==
    [gpu_index |-> gpu, fan_index |-> fan, curve |-> curve, hysteresis |-> hyst]

\* One profile, the curve (30,25) (50,45) (70,75) declared out of order,
\* hysteresis 2.
OneProfileRaw ==
    Dict(Num(20),
         List(<<Entry(Num(0), Num(0),
                      List(<<Point(500, 450), Point(700, 750), Point(300, 250)>>),
                      Num(20))>>),
         Missing, Missing, Missing, Missing)

\* Three profiles: a curve that evaluates to 0 %, one declared above 100 %,
\* one on a half percent; hysteresis zero, negative and absent; a poll
\* interval below the floor.
ThreeProfilesRaw ==
    Dict(Num(1),
         List(<<Entry(Num(0), Num(0), List(<<Point(0, 0)>>), Num(0)),
                Entry(Num(0), Num(1), List(<<Point(500, 1200)>>), Num(-10)),
                Entry(Num(1), Num(0), List(<<Point(0, 455)>>), Missing)>>),
         Missing, Missing, Missing, Missing)

\* Three profiles: two entries for fan 0 of GPU 0, the first with two points
\* at 50 degC, and one entry for fan -1 of GPU 0.
TwinProfilesRaw ==
    Dict(Missing,
         List(<<Entry(Num(0), Num(0),
                      List(<<Point(500, 400), Point(500, 800)>>), Num(20)),
                Entry(Num(0), Num(0), List(<<Point(0, 300)>>), Num(20)),
                Entry(Num(0), Num(-1), List(<<Point(0, 300)>>), Num(20))>>),
         Missing, Missing, Missing, Missing)

ConfigContents ==
    {File(OneProfileRaw), File(ThreeProfilesRaw), File(TwinProfilesRaw), NoFile}

\* The directory when no save_config() call is under way and none is
\* modelled.
NoSaves == [inodes |-> <<>>, path |-> 0, temp |-> 0, savers |-> <<>>]

\* The locals of the one-shot commands when none is run.
NoCommand ==
    [profile_selector |-> None, targets |-> <<>>, controllers |-> <<>>,
     reported |-> <<>>]

----------------------------------------------------------------------------
(* The process: main() in --once or --daemon mode.                         *)

\* The value of a local that is not live.
NoCfg == DEFAULT_CONFIG

\* The calls the step has added to hwlog.
NewCalls ==
    IF Len(hwlog') >= Len(hwlog)
    THEN SubSeq(hwlog', Len(hwlog) + 1, Len(hwlog'))
    ELSE <<>>

\* The bound on the calls hist records.
MaxHist == 6

\* hist follows hwlog when monitoring; the process does not change what the
\* configuration path may hold nor the directory; the probe and the one-shot
\* commands are not part of the process.  after_reload is set when run()
\* goes from a successful reload_config() to loop_once() and lasts until
\* loop_once() returns.
Recorded ==
    /\ monitor => Len(hist) < MaxHist
    /\ monitor' = monitor
    /\ store' = store
    /\ fs' = fs
    /\ cmd' = cmd
    /\ hist' = IF monitor THEN hist \o NewCalls ELSE hist
    /\ probe' = probe
    /\ after_reload' = IF pc = "reload_clear" /\ pc' = "poll"
                       THEN reload_result = "ok"
                       ELSE IF pc = "poll" /\ pc' # "poll" THEN FALSE
                       ELSE after_reload

\* A step that is neither the arrival of a SIGHUP nor the load_config() of a
\* reload.
Observe ==
    /\ Recorded
    /\ hup_pending' = hup_pending

\* main() after config = load_config(args.config), about to build the
\* profiles.
Started ==
    /\ pc = "main_build"
    /\ i = 1
    /\ mode \in {"daemon", "once"}
    /\ restore_on_exit \in BOOLEAN
    /\ running = TRUE
    /\ reload_requested = FALSE
    /\ profiles = <<>>
    /\ poll_interval = 0
    /\ \E content \in store : cfg = load_config(content)
    /\ new_profiles = <<>>
    /\ hwlog = <<>>
    /\ reload_result = "none"
    /\ snap = None
    /\ stop_at = None
    /\ cmd = NoCommand
    /\ after_reload = FALSE
    /\ fs = NoSaves
    /\ hist = <<>>
    /\ probe = [op |-> "none"]

Init ==
    /\ store = ConfigContents
    /\ Started
    /\ monitor = FALSE
    /\ hup_pending = "untracked"

\* One pass of the loop of build_managed_profiles: the entry is converted
\* and its controller opened; on an exception every profile built so far is
\* closed without restore and the exception propagates to the caller, which
\* continues at fail_pc.
BuildOpen(fail_pc, result) ==
    /\ i <= Len(Entries(cfg))
    /\ LET entry == Entries(cfg)[i]
           valid == EntryValid(entry)
           gpu == IF valid THEN ManagedProfile(entry).gpu_index ELSE 0
           fan == IF valid THEN ManagedProfile(entry).fan_index ELSE 0
       IN  \E outcome \in (IF valid THEN OpenOutcomes(gpu, fan)
                           ELSE {"invalid_entry"}) :
              IF outcome = "ok"
              THEN /\ new_profiles' = Append(new_profiles, ManagedProfile(entry))
                   /\ hwlog' = hwlog \o OpenCalls(gpu, fan, outcome)
                   /\ i' = i + 1
                   /\ UNCHANGED <<pc, cfg, reload_result>>
              ELSE /\ new_profiles' = <<>>
                   /\ hwlog' = hwlog
                               \o (IF valid THEN OpenCalls(gpu, fan, outcome)
                                   ELSE <<>>)
                               \o CleanupCalls(new_profiles)
                   /\ pc' = fail_pc
                   /\ i' = 1
                   /\ cfg' = NoCfg
                   /\ reload_result' = result

\* main(): build_managed_profiles(config), one entry.
MainBuild ==
    /\ pc = "main_build"
    /\ BuildOpen("exit_failed", "none")
    /\ UNCHANGED <<mode, restore_on_exit, running, reload_requested, profiles,
                   poll_interval, snap, stop_at>>
    /\ Observe

\* main(): FanManager(...), then loop_once() or run().
MainStart ==
    /\ pc = "main_build"
    /\ i > Len(Entries(cfg))
    /\ profiles' = new_profiles
    /\ poll_interval' = Max(MinPollInterval,
                            GetOr(cfg.poll_interval,
                                  DEFAULT_CONFIG.poll_interval)[2])
    /\ new_profiles' = <<>>
    /\ cfg' = NoCfg
    /\ pc' = IF mode = "once" THEN "poll" ELSE "run_top"
    /\ i' = 1
    /\ hwlog' = <<>>
    /\ UNCHANGED <<mode, restore_on_exit, running, reload_requested,
                   reload_result, snap, stop_at>>
    /\ Observe

\* Whether FanManager.__init__ has installed the signal handlers and the
\* process has not returned from main().
HandlersInstalled == pc \notin {"main_build", "exit_failed", "exit", "Terminated"}

\* A stop handler that would close the sessions itself, wherever the loop is.
StopClosingSessions ==
    /\ HandlersInstalled
    /\ running' = FALSE
    /\ stop_at' = IF stop_at = None
                   THEN <<pc, IF pc = "poll" THEN i ELSE 0>> ELSE stop_at
    /\ profiles' = [k \in 1..Len(profiles) |->
                      [profiles[k] EXCEPT !.closes = @ + 1]]
    /\ UNCHANGED <<pc, i, mode, restore_on_exit, reload_requested,
                   poll_interval, cfg, new_profiles, hwlog, reload_result, snap>>
    /\ Observe

\* FanManager.stop, run by SIGTERM or SIGINT.
Stop ==
    /\ HandlersInstalled
    /\ running' = FALSE
    /\ stop_at' = IF stop_at = None
                   THEN <<pc, IF pc = "poll" THEN i ELSE 0>> ELSE stop_at
    /\ UNCHANGED <<pc, i, mode, restore_on_exit, reload_requested, profiles,
                   poll_interval, cfg, new_profiles, hwlog, reload_result, snap>>
    /\ Observe

\* FanManager.trigger_reload, run by SIGHUP.
Hup ==
    /\ HandlersInstalled
    /\ reload_requested' = TRUE
    /\ UNCHANGED <<pc, i, mode, restore_on_exit, running, profiles,
                   poll_interval, cfg, new_profiles, hwlog, reload_result, snap,
                   stop_at>>
    /\ Recorded
    /\ hup_pending' = IF hup_pending = "untracked" THEN hup_pending ELSE "yes"

\* A loop that would not look at the flag: while True.
RunTopUnconditional ==
    /\ pc = "run_top"
    /\ pc' = "check_reload"
    /\ i' = 1
    /\ UNCHANGED <<mode, restore_on_exit, running, reload_requested, profiles,
                   poll_interval, cfg, new_profiles, hwlog, reload_result, snap,
                   stop_at>>
    /\ Observe

\* FanManager.run: while self._running.
RunTop ==
    /\ pc = "run_top"
    /\ pc' = IF running THEN "check_reload" ELSE "finally"
    /\ i' = 1
    /\ UNCHANGED <<mode, restore_on_exit, running, reload_requested, profiles,
                   poll_interval, cfg, new_profiles, hwlog, reload_result, snap,
                   stop_at>>
    /\ Observe

\* FanManager.run: if self._reload_requested.
CheckReload ==
    /\ pc = "check_reload"
    /\ IF reload_requested
       THEN /\ pc' = "reload_load"
            /\ snap' = Some([profiles |-> profiles,
                             poll_interval |-> poll_interval])
       ELSE /\ pc' = "poll"
            /\ snap' = snap
    /\ UNCHANGED <<i, mode, restore_on_exit, running, reload_requested,
                   profiles, poll_interval, cfg, new_profiles, hwlog,
                   reload_result, stop_at>>
    /\ Observe

\* reload_config: cfg = load_config(self.config_path), which raises on a
\* file that is not a JSON object.
ReloadLoad ==
    /\ pc = "reload_load"
    /\ \/ /\ pc' = "reload_clear"
          /\ reload_result' = "load_failed"
          /\ UNCHANGED cfg
       \/ \E content \in store :
             /\ cfg' = load_config(content)
             /\ pc' = "reload_build"
             /\ UNCHANGED reload_result
    /\ i' = 1
    /\ UNCHANGED <<mode, restore_on_exit, running, reload_requested, profiles,
                   poll_interval, new_profiles, hwlog, snap, stop_at>>
    /\ Recorded
    /\ hup_pending' = IF hup_pending = "untracked" THEN hup_pending ELSE "no"

\* reload_config: build_managed_profiles(cfg), one entry.
ReloadBuild ==
    /\ pc = "reload_build"
    /\ BuildOpen("reload_clear", "build_failed")
    /\ UNCHANGED <<mode, restore_on_exit, running, reload_requested, profiles,
                   poll_interval, snap, stop_at>>
    /\ Observe

\* A successful reload that would leave the poll interval as it was.
ReloadBuiltKeepsInterval ==
    /\ pc = "reload_build"
    /\ i > Len(Entries(cfg))
    /\ pc' = "reload_close"
    /\ i' = 1
    /\ UNCHANGED <<mode, restore_on_exit, running, reload_requested, profiles,
                   poll_interval, cfg, new_profiles, hwlog, reload_result,
                   snap, stop_at>>
    /\ Observe

\* reload_config: the new set is built; self.poll_interval is assigned and
\* set_profiles starts closing the old profiles.
ReloadBuilt ==
    /\ pc = "reload_build"
    /\ i > Len(Entries(cfg))
    /\ poll_interval' = Max(MinPollInterval,
                            IF cfg.poll_interval = Missing THEN poll_interval
                            ELSE cfg.poll_interval[2])
    /\ pc' = "reload_close"
    /\ i' = 1
    /\ UNCHANGED <<mode, restore_on_exit, running, reload_requested, profiles,
                   cfg, new_profiles, hwlog, reload_result, snap, stop_at>>
    /\ Observe

\* One pass of the loop of FanManager._close_profiles(self.profiles,
\* restore=self.restore_on_exit).
CloseProfile ==
    /\ i <= Len(profiles)
    /\ \E done \in Close(profiles[i], restore_on_exit) :
          /\ profiles' = [profiles EXCEPT ![i] = done.profile]
          /\ hwlog' = hwlog \o done.calls
    /\ i' = i + 1

\* set_profiles, called by reload_config: one old profile is closed.
ReloadCloseOld ==
    /\ pc = "reload_close"
    /\ CloseProfile
    /\ UNCHANGED <<pc, mode, restore_on_exit, running, reload_requested,
                   poll_interval, cfg, new_profiles, reload_result, snap,
                   stop_at>>
    /\ Observe

\* A swap that would hand the last-applied state of the old profiles over
\* to the new ones.
ReloadSwapCarryingState ==
    /\ pc = "reload_close"
    /\ i > Len(profiles)
    /\ profiles' = [k \in 1..Len(new_profiles) |->
                      IF k <= Len(profiles)
                      THEN [new_profiles[k] EXCEPT
                              !.last_speed = profiles[k].last_speed,
                              !.last_temp = profiles[k].last_temp]
                      ELSE new_profiles[k]]
    /\ new_profiles' = <<>>
    /\ cfg' = NoCfg
    /\ reload_result' = "ok"
    /\ pc' = "reload_clear"
    /\ i' = 1
    /\ UNCHANGED <<mode, restore_on_exit, running, reload_requested,
                   poll_interval, hwlog, snap, stop_at>>
    /\ Observe

\* set_profiles, called by reload_config: self.profiles = profiles.
ReloadSwap ==
    /\ pc = "reload_close"
    /\ i > Len(profiles)
    /\ profiles' = new_profiles
    /\ new_profiles' = <<>>
    /\ cfg' = NoCfg
    /\ reload_result' = "ok"
    /\ pc' = "reload_clear"
    /\ i' = 1
    /\ UNCHANGED <<mode, restore_on_exit, running, reload_requested,
                   poll_interval, hwlog, snap, stop_at>>
    /\ Observe

\* A loop that would keep the request of a reload that failed.
ReloadClearOnSuccess ==
    /\ pc = "reload_clear"
    /\ reload_requested' = (reload_result # "ok")
    /\ pc' = "poll"
    /\ i' = 1
    /\ hwlog' = <<>>
    /\ reload_result' = "none"
    /\ snap' = None
    /\ UNCHANGED <<mode, restore_on_exit, running, profiles, poll_interval,
                   cfg, new_profiles, stop_at>>
    /\ Observe

\* FanManager.run: self._reload_requested = False, then loop_once().
ReloadClear ==
    /\ pc = "reload_clear"
    /\ reload_requested' = FALSE
    /\ pc' = "poll"
    /\ i' = 1
    /\ hwlog' = <<>>
    /\ reload_result' = "none"
    /\ snap' = None
    /\ UNCHANGED <<mode, restore_on_exit, running, profiles, poll_interval,
                   cfg, new_profiles, stop_at>>
    /\ Observe

\* An error that would end the cycle.
AfterPollErrorBreak(k, n) == [pc |-> "poll", i |-> n + 1]

\* An error that would propagate out of loop_once.
AfterPollErrorRaise(k, n) ==
    [pc |-> IF mode = "once" THEN "once_close" ELSE "finally", i |-> 1]

\* loop_once: the except NvmlError clause is inside the for-loop, so after
\* an error on profile k of n the loop goes on with profile k + 1.
AfterPollError(k, n) == [pc |-> "poll", i |-> k + 1]

\* A pass that would record the last-applied state before the write is known
\* to have succeeded.
PollProfileRecordingFirst ==
    /\ pc = "poll"
    /\ i <= Len(profiles)
    /\ LET p == profiles[i]
           gpu == p.gpu_index
           fan == p.fan_index
           after == AfterPollError(i, Len(profiles))
       IN  \/ \* get_temperature() raises NvmlError
              /\ hwlog' = Append(hwlog, Call("getTemp", gpu, fan, 0, FALSE))
              /\ profiles' = profiles
              /\ pc' = after.pc
              /\ i' = after.i
           \/ \E temperature \in Temps :
                 LET target == value(p.curve, temperature)
                     read == Call("getTemp", gpu, fan, temperature, TRUE)
                     speed == ClampCommand(target)
                 IN  IF should_apply(p.last_speed, p.hysteresis, target)
                     THEN \/ \* apply_speed succeeds
                             /\ hwlog' = hwlog \o
                                   <<read, Call("setSpeed", gpu, fan,
                                                RoundPercent(speed), TRUE)>>
                             /\ profiles' =
                                   [profiles EXCEPT
                                      ![i].last_speed = Some(speed),
                                      ![i].last_temp = Some(temperature)]
                             /\ i' = i + 1
                             /\ pc' = pc
                          \/ \* set_fan_speed() raises NvmlError
                             /\ hwlog' = hwlog \o
                                   <<read, Call("setSpeed", gpu, fan,
                                                RoundPercent(speed), FALSE)>>
                             /\ profiles' =
                                   [profiles EXCEPT
                                      ![i].last_speed = Some(speed),
                                      ![i].last_temp = Some(temperature)]
                             /\ pc' = after.pc
                             /\ i' = after.i
                     ELSE \* within hysteresis
                          /\ hwlog' = Append(hwlog, read)
                          /\ profiles' = profiles
                          /\ i' = i + 1
                          /\ pc' = pc
    /\ UNCHANGED <<mode, restore_on_exit, running, reload_requested,
                   poll_interval, cfg, new_profiles, reload_result, snap,
                   stop_at>>
    /\ Observe

\* A pass that would record the target of a cycle that is skipped.
PollProfileTrackingTarget ==
    /\ pc = "poll"
    /\ i <= Len(profiles)
    /\ LET p == profiles[i]
           gpu == p.gpu_index
           fan == p.fan_index
           after == AfterPollError(i, Len(profiles))
       IN  \/ \* get_temperature() raises NvmlError
              /\ hwlog' = Append(hwlog, Call("getTemp", gpu, fan, 0, FALSE))
              /\ profiles' = profiles
              /\ pc' = after.pc
              /\ i' = after.i
           \/ \E temperature \in Temps :
                 LET target == value(p.curve, temperature)
                     read == Call("getTemp", gpu, fan, temperature, TRUE)
                     speed == ClampCommand(target)
                 IN  IF should_apply(p.last_speed, p.hysteresis, target)
                     THEN \/ \* apply_speed succeeds
                             /\ hwlog' = hwlog \o
                                   <<read, Call("setSpeed", gpu, fan,
                                                RoundPercent(speed), TRUE)>>
                             /\ profiles' =
                                   [profiles EXCEPT
                                      ![i].last_speed = Some(speed),
                                      ![i].last_temp = Some(temperature)]
                             /\ i' = i + 1
                             /\ pc' = pc
                          \/ \* set_fan_speed() raises NvmlError
                             /\ hwlog' = hwlog \o
                                   <<read, Call("setSpeed", gpu, fan,
                                                RoundPercent(speed), FALSE)>>
                             /\ profiles' = profiles
                             /\ pc' = after.pc
                             /\ i' = after.i
                     ELSE \* within hysteresis
                          /\ hwlog' = Append(hwlog, read)
                          /\ profiles' =
                                [profiles EXCEPT
                                   ![i].last_speed = Some(speed),
                                   ![i].last_temp = Some(temperature)]
                          /\ i' = i + 1
                          /\ pc' = pc
    /\ UNCHANGED <<mode, restore_on_exit, running, reload_requested,
                   poll_interval, cfg, new_profiles, reload_result, snap,
                   stop_at>>
    /\ Observe

\* loop_once: one pass of the for-loop.
PollProfile ==
    /\ pc = "poll"
    /\ i <= Len(profiles)
    /\ LET p == profiles[i]
           gpu == p.gpu_index
           fan == p.fan_index
           after == AfterPollError(i, Len(profiles))
       IN  \/ \* get_temperature() raises NvmlError
              /\ hwlog' = Append(hwlog, Call("getTemp", gpu, fan, 0, FALSE))
              /\ profiles' = profiles
              /\ pc' = after.pc
              /\ i' = after.i
           \/ \E temperature \in Temps :
                 LET target == value(p.curve, temperature)
                     read == Call("getTemp", gpu, fan, temperature, TRUE)
                     speed == ClampCommand(target)
                 IN  IF should_apply(p.last_speed, p.hysteresis, target)
                     THEN \/ \* apply_speed succeeds
                             /\ hwlog' = hwlog \o
                                   <<read, Call("setSpeed", gpu, fan,
                                                RoundPercent(speed), TRUE)>>
                             /\ profiles' =
                                   [profiles EXCEPT
                                      ![i].last_speed = Some(speed),
                                      ![i].last_temp = Some(temperature)]
                             /\ i' = i + 1
                             /\ pc' = pc
                          \/ \* set_fan_speed() raises NvmlError
                             /\ hwlog' = hwlog \o
                                   <<read, Call("setSpeed", gpu, fan,
                                                RoundPercent(speed), FALSE)>>
                             /\ profiles' = profiles
                             /\ pc' = after.pc
                             /\ i' = after.i
                     ELSE \* within hysteresis
                          /\ hwlog' = Append(hwlog, read)
                          /\ profiles' = profiles
                          /\ i' = i + 1
                          /\ pc' = pc
    /\ UNCHANGED <<mode, restore_on_exit, running, reload_requested,
                   poll_interval, cfg, new_profiles, reload_result, snap,
                   stop_at>>
    /\ Observe

\* loop_once returns: run() sleeps, main() in --once mode calls
\* set_profiles([]).
PollDone ==
    /\ pc = "poll"
    /\ i > Len(profiles)
    /\ pc' = IF mode = "once" THEN "once_close" ELSE "sleep"
    /\ i' = 1
    /\ hwlog' = <<>>
    /\ UNCHANGED <<mode, restore_on_exit, running, reload_requested, profiles,
                   poll_interval, cfg, new_profiles, reload_result, snap,
                   stop_at>>
    /\ Observe

\* FanManager.run: time.sleep(self.poll_interval) returns.
Sleep ==
    /\ pc = "sleep"
    /\ pc' = "run_top"
    /\ UNCHANGED <<i, mode, restore_on_exit, running, reload_requested,
                   profiles, poll_interval, cfg, new_profiles, hwlog,
                   reload_result, snap, stop_at>>
    /\ Observe

\* FanManager.run, the finally clause: one profile is closed.
FinallyClose ==
    /\ pc = "finally"
    /\ CloseProfile
    /\ UNCHANGED <<pc, mode, restore_on_exit, running, reload_requested,
                   poll_interval, cfg, new_profiles, reload_result, snap,
                   stop_at>>
    /\ Observe

\* FanManager.run returns.
Terminate ==
    /\ pc = "finally"
    /\ i > Len(profiles)
    /\ pc' = "Terminated"
    /\ UNCHANGED <<i, mode, restore_on_exit, running, reload_requested,
                   profiles, poll_interval, cfg, new_profiles, hwlog,
                   reload_result, snap, stop_at>>
    /\ Observe

\* main(), --once: manager.set_profiles([]) closes one profile.
OnceClose ==
    /\ pc = "once_close"
    /\ CloseProfile
    /\ UNCHANGED <<pc, mode, restore_on_exit, running, reload_requested,
                   poll_interval, cfg, new_profiles, reload_result, snap,
                   stop_at>>
    /\ Observe

\* main(), --once: set_profiles assigns the empty list; main() returns.
OnceExit ==
    /\ pc = "once_close"
    /\ i > Len(profiles)
    /\ profiles' = <<>>
    /\ pc' = "exit"
    /\ UNCHANGED <<i, mode, restore_on_exit, running, reload_requested,
                   poll_interval, cfg, new_profiles, hwlog, reload_result, snap,
                   stop_at>>
    /\ Observe

Next ==
    \/ MainBuild
    \/ MainStart
    \/ Stop
    \/ Hup
    \/ RunTop
    \/ CheckReload
    \/ ReloadLoad
    \/ ReloadBuild
    \/ ReloadBuilt
    \/ ReloadCloseOld
    \/ ReloadSwap
    \/ ReloadClear
    \/ PollProfile
    \/ PollDone
    \/ Sleep
    \/ FinallyClose
    \/ Terminate
    \/ OnceClose
    \/ OnceExit

Spec == Init /\ [][Next]_vars

\* The steps the process takes by itself; Stop and Hup are the environment's.
ProcessStep ==
    \/ MainBuild
    \/ MainStart
    \/ RunTop
    \/ CheckReload
    \/ ReloadLoad
    \/ ReloadBuild
    \/ ReloadBuilt
    \/ ReloadCloseOld
    \/ ReloadSwap
    \/ ReloadClear
    \/ PollProfile
    \/ PollDone
    \/ Sleep
    \/ FinallyClose
    \/ Terminate
    \/ OnceClose
    \/ OnceExit

\* The daemon on a configuration path that holds a configuration of two
\* profiles with flat curves.
TwoProfilesRaw ==
    Dict(Num(10),
         List(<<Entry(Num(0), Num(0), List(<<Point(0, 300)>>), Num(20)),
                Entry(Num(1), Num(1), List(<<Point(0, 500)>>), Num(20))>>),
         Missing, Missing, Missing, Missing)
LiveContents == {File(TwoProfilesRaw)}
InitLive ==
    /\ store = LiveContents
    /\ Started
    /\ monitor = FALSE
    /\ hup_pending = "no"

\* The process keeps running: every library call, file read and sleep
\* returns, so a step that is possible is eventually taken.
SpecLive == InitLive /\ [][Next]_vars /\ WF_vars(ProcessStep)

\* The same process with hist recording every library call since the start,
\* for runs of at most MaxHist calls.
InitScenario ==
    /\ store = ConfigContents
    /\ Started
    /\ monitor = TRUE
    /\ hup_pending = "untracked"
SpecScenario == InitScenario /\ [][Next]_vars

\* The daemon on a configuration of one profile whose curve rises by 1 % at
\* 45.5 degC and by another 1 % at 60 degC, with hysteresis 2, hist
\* recording the calls.
DriftRaw ==
    Dict(Num(20),
         List(<<Entry(Num(0), Num(0),
                      List(<<Point(0, 300), Point(455, 310), Point(600, 320)>>),
                      Num(20))>>),
         Missing, Missing, Missing, Missing)
InitDrift ==
    /\ store = {File(DriftRaw)}
    /\ Started
    /\ monitor = TRUE
    /\ hup_pending = "untracked"
SpecDrift == InitDrift /\ [][Next]_vars

----------------------------------------------------------------------------
(* The pure functions on drawn inputs.                                     *)

MaxPoints == 3
ProbePointTemps == {300, 500, 700}
ProbeSpeeds == {250, 450, 750}
ProbeTemps == {200, 300, 450, 500, 700, 900}
ProbeLast == {None, Some(500)}
ProbeHysteresis == {-10, 0, 3, 5, 6, 20}
ProbeTargets == 480..520

PointLists ==
    UNION { [1..n -> [temperature : ProbePointTemps, speed : ProbeSpeeds]]
            : n \in 1..MaxPoints }

InitPure ==
    /\ pc = "pure"
    /\ i = 1
    /\ mode = "daemon"
    /\ restore_on_exit = TRUE
    /\ running = TRUE
    /\ reload_requested = FALSE
    /\ profiles = <<>>
    /\ poll_interval = 0
    /\ cfg = NoCfg
    /\ new_profiles = <<>>
    /\ hwlog = <<>>
    /\ reload_result = "none"
    /\ snap = None
    /\ stop_at = None
    /\ cmd = NoCommand
    /\ after_reload = FALSE
    /\ hup_pending = "untracked"
    /\ store = {}
    /\ fs = NoSaves
    /\ monitor = FALSE
    /\ hist = <<>>
    /\ \/ \E points \in PointLists, t1 \in ProbeTemps, t2 \in ProbeTemps :
             /\ t1 <= t2
             /\ probe = [op |-> "curve_in", points |-> points,
                         t1 |-> t1, t2 |-> t2]
       \/ \E last \in ProbeLast, hysteresis \in ProbeHysteresis,
             target \in ProbeTargets :
             probe = [op |-> "gate_in", last_speed |-> last,
                      hysteresis |-> hysteresis, target |-> target]

\* FanCurve(points).value(t1) and .value(t2)
EvalValue ==
    /\ probe.op = "curve_in"
    /\ probe' = [op |-> "value", points |-> probe.points,
                 t1 |-> probe.t1, t2 |-> probe.t2,
                 v1 |-> value(FanCurve(probe.points), probe.t1),
                 v2 |-> value(FanCurve(probe.points), probe.t2)]
    /\ UNCHANGED <<dvars, monitor, hist>>

\* FanManager.should_apply(profile, target)
EvalShouldApply ==
    /\ probe.op = "gate_in"
    /\ probe' = [op |-> "should_apply", last_speed |-> probe.last_speed,
                 hysteresis |-> probe.hysteresis, target |-> probe.target,
                 out |-> should_apply(probe.last_speed, probe.hysteresis,
                                      probe.target)]
    /\ UNCHANGED <<dvars, monitor, hist>>

NextPure == EvalValue \/ EvalShouldApply

SpecPure == InitPure /\ [][NextPure]_vars

----------------------------------------------------------------------------
(* The one-shot commands: main() with --status or --restore-auto.          *)

\* The profiles --profile may name.
Selectors == {None} \cup {Some(<<gpu, fan>>) : gpu \in 0..1, fan \in 0..1}

\* The fan speeds a read may return, in percent.
FanSpeeds == {0, 40}

\* What a command leaves alone.
cmdframe == <<mode, restore_on_exit, running, reload_requested, profiles,
              poll_interval, cfg, new_profiles, reload_result, snap, stop_at,
              store, fs, after_reload, hup_pending, monitor, hist, probe>>

\* main() after config = load_config(args.config) and
\* resolve_profile_tuple, about to call command_status or
\* restore_auto_profiles.
InitCommand ==
    /\ pc = "cmd_start"
    /\ i = 1
    /\ mode \in {"status", "restore_auto"}
    /\ restore_on_exit = TRUE
    /\ running = TRUE
    /\ reload_requested = FALSE
    /\ profiles = <<>>
    /\ poll_interval = 0
    /\ store = ConfigContents
    /\ \E content \in store : cfg = load_config(content)
    /\ new_profiles = <<>>
    /\ hwlog = <<>>
    /\ reload_result = "none"
    /\ snap = None
    /\ stop_at = None
    /\ \E selector \in Selectors :
          cmd = [NoCommand EXCEPT !.profile_selector = selector]
    /\ after_reload = FALSE
    /\ hup_pending = "untracked"
    /\ fs = NoSaves
    /\ monitor = FALSE
    /\ hist = <<>>
    /\ probe = [op |-> "none"]

\* find_profile: the index of the first profile of the pair, 0 if none.
RECURSIVE find_profile(_, _, _)
find_profile(entries, gpu_index, fan_index) ==
    IF entries = <<>> THEN 0
    ELSE IF Head(entries).gpu_index = Num(gpu_index)
            /\ Head(entries).fan_index = Num(fan_index)
         THEN 1
         ELSE LET rest == find_profile(Tail(entries), gpu_index, fan_index)
              IN  IF rest = 0 THEN 0 ELSE rest + 1

\* command_status / restore_auto_profiles: the profiles are selected; a
\* selector that names no profile ends the command with SystemExit.
CommandSelect ==
    /\ pc = "cmd_start"
    /\ LET profiles_cfg == Entries(cfg)
           selector == cmd.profile_selector
           found == IF selector = None THEN 0
                    ELSE find_profile(profiles_cfg, Get(selector)[1],
                                      Get(selector)[2])
       IN  IF mode = "status" /\ profiles_cfg = <<>>
           THEN pc' = "cmd_exit" /\ cmd' = cmd
           ELSE IF selector # None /\ found = 0
           THEN pc' = "cmd_failed" /\ cmd' = cmd
           ELSE LET targets == IF selector = None THEN profiles_cfg
                               ELSE <<profiles_cfg[found]>>
                IN  /\ cmd' = [cmd EXCEPT !.targets = targets]
                    /\ pc' = IF targets = <<>> THEN "cmd_exit" ELSE "cmd_open"
    /\ UNCHANGED <<i, hwlog>>
    /\ UNCHANGED cmdframe

\* The for-loop of command_status / restore_auto_profiles:
\* controller = NvmlController(entry["gpu_index"], entry["fan_index"]).
\* command_status turns an NvmlError into SystemExit, restore_auto_profiles
\* lets it propagate; either ends the command.
CommandOpen ==
    /\ pc = "cmd_open"
    /\ i <= Len(cmd.targets)
    /\ LET gpu == cmd.targets[i].gpu_index[2]
           fan == cmd.targets[i].fan_index[2]
       IN  \E outcome \in OpenOutcomes(gpu, fan) :
              /\ hwlog' = hwlog \o OpenCalls(gpu, fan, outcome)
              /\ IF outcome = "ok"
                 THEN /\ cmd' = [cmd EXCEPT !.controllers =
                                    Append(@, [gpu_index |-> gpu,
                                               fan_index |-> fan,
                                               closes |-> 0])]
                      /\ pc' = "cmd_call"
                 ELSE /\ cmd' = IF mode = "status"
                                THEN [cmd EXCEPT !.reported =
                                        Append(@, [gpu_index |-> gpu,
                                                   fan_index |-> fan,
                                                   ok |-> FALSE])]
                                ELSE cmd
                      /\ pc' = "cmd_failed"
    /\ UNCHANGED i
    /\ UNCHANGED cmdframe

\* The controller of the pass, shut down.
Shutdown(controllers) ==
    [controllers EXCEPT ![Len(controllers)].closes = @ + 1]

\* A pass of command_status whose reads would not be in a try/finally.
CommandStatusNoFinally ==
    /\ pc = "cmd_call"
    /\ mode = "status"
    /\ LET entry == cmd.targets[i]
           gpu == entry.gpu_index[2]
           fan == entry.fan_index[2]
           down == Call("nvmlShutdown", gpu, fan, 0, TRUE)
       IN  \/ /\ hwlog' = hwlog \o <<Call("getTemp", gpu, fan, 0, FALSE)>>
              /\ cmd' = cmd
              /\ pc' = "cmd_failed"
              /\ i' = i
           \/ \E temp \in Temps :
                 /\ hwlog' = hwlog \o <<Call("getTemp", gpu, fan, temp, TRUE),
                                        Call("getSpeed", gpu, fan, 0, FALSE)>>
                 /\ cmd' = cmd
                 /\ pc' = "cmd_failed"
                 /\ i' = i
           \/ \E temp \in Temps, speed \in FanSpeeds :
                 /\ hwlog' = hwlog \o <<Call("getTemp", gpu, fan, temp, TRUE),
                                        Call("getSpeed", gpu, fan, speed, TRUE),
                                        down>>
                 /\ cmd' = [cmd EXCEPT
                              !.controllers = Shutdown(@),
                              !.reported = Append(@,
                                  [gpu_index |-> gpu, fan_index |-> fan,
                                   ok |-> TRUE, temperature |-> temp,
                                   current_speed |-> speed,
                                   target_speed |->
                                       value(from_dicts(entry.curve[2]), temp)])]
                 /\ pc' = "cmd_open"
                 /\ i' = i + 1
    /\ UNCHANGED cmdframe

\* command_status, the rest of a pass: get_temperature(), get_fan_speed()
\* and the curve value, with controller.shutdown() in the finally clause;
\* an NvmlError of a read propagates and ends the command.
CommandStatus ==
    /\ pc = "cmd_call"
    /\ mode = "status"
    /\ LET entry == cmd.targets[i]
           gpu == entry.gpu_index[2]
           fan == entry.fan_index[2]
           down == Call("nvmlShutdown", gpu, fan, 0, TRUE)
       IN  \/ /\ hwlog' = hwlog \o <<Call("getTemp", gpu, fan, 0, FALSE), down>>
              /\ cmd' = [cmd EXCEPT !.controllers = Shutdown(@)]
              /\ pc' = "cmd_failed"
              /\ i' = i
           \/ \E temp \in Temps :
                 /\ hwlog' = hwlog \o <<Call("getTemp", gpu, fan, temp, TRUE),
                                        Call("getSpeed", gpu, fan, 0, FALSE),
                                        down>>
                 /\ cmd' = [cmd EXCEPT !.controllers = Shutdown(@)]
                 /\ pc' = "cmd_failed"
                 /\ i' = i
           \/ \E temp \in Temps, speed \in FanSpeeds :
                 /\ hwlog' = hwlog \o <<Call("getTemp", gpu, fan, temp, TRUE),
                                        Call("getSpeed", gpu, fan, speed, TRUE),
                                        down>>
                 /\ cmd' = [cmd EXCEPT
                              !.controllers = Shutdown(@),
                              !.reported = Append(@,
                                  [gpu_index |-> gpu, fan_index |-> fan,
                                   ok |-> TRUE, temperature |-> temp,
                                   current_speed |-> speed,
                                   target_speed |->
                                       value(from_dicts(entry.curve[2]), temp)])]
                 /\ pc' = "cmd_open"
                 /\ i' = i + 1
    /\ UNCHANGED cmdframe

\* restore_auto_profiles, the rest of a pass: controller.restore_auto() and
\* the print, with controller.shutdown() in the finally clause; an
\* NvmlError of restore_auto() propagates and ends the command.
CommandRestore ==
    /\ pc = "cmd_call"
    /\ mode = "restore_auto"
    /\ LET gpu == cmd.targets[i].gpu_index[2]
           fan == cmd.targets[i].fan_index[2]
           down == Call("nvmlShutdown", gpu, fan, 0, TRUE)
       IN  \/ /\ hwlog' = hwlog \o
                            <<Call("restoreAuto", gpu, fan, 0, FALSE), down>>
              /\ cmd' = [cmd EXCEPT !.controllers = Shutdown(@)]
              /\ pc' = "cmd_failed"
              /\ i' = i
           \/ /\ hwlog' = hwlog \o
                            <<Call("restoreAuto", gpu, fan, 0, TRUE), down>>
              /\ cmd' = [cmd EXCEPT
                           !.controllers = Shutdown(@),
                           !.reported = Append(@, [gpu_index |-> gpu,
                                                   fan_index |-> fan,
                                                   ok |-> TRUE])]
              /\ pc' = "cmd_open"
              /\ i' = i + 1
    /\ UNCHANGED cmdframe

\* The for-loop is over: command_status prints the entries; the command
\* returns.
CommandDone ==
    /\ pc = "cmd_open"
    /\ i > Len(cmd.targets)
    /\ pc' = "cmd_exit"
    /\ UNCHANGED <<i, hwlog, cmd>>
    /\ UNCHANGED cmdframe

NextCommand ==
    \/ CommandSelect
    \/ CommandOpen
    \/ CommandStatus
    \/ CommandRestore
    \/ CommandDone

SpecCommand == InitCommand /\ [][NextCommand]_vars

----------------------------------------------------------------------------
(* Controller sessions opened and closed by a caller.                      *)

\* The sessions a caller opens, the times it closes one, and the
\* initialisations of the library it lets pile up.
MaxSessions == 2
MaxCloses == 2
MaxInits == 3

\* NvmlController.__init__ on a library that has no nvmlDeviceGetNumFans:
\* _validate_fan_index catches the AttributeError and returns.
OpenOutcomesNoCount(gpu, fan) ==
    {"init_failed", "no_device"}
    \cup (IF gpu \in 0..(NumDevices - 1) THEN {"ok"} ELSE {})

\* What the operations on sessions leave alone.
sessionframe == <<pc, i, mode, restore_on_exit, running, reload_requested,
                  poll_interval, cfg, new_profiles, reload_result, snap,
                  stop_at, store, fs, cmd, after_reload, hup_pending, monitor,
                  hist>>

\* No session yet, on a library that has nvmlDeviceGetNumFans or has not.
\* probe.inits counts the nvmlInit_v2 calls that succeeded and that no
\* nvmlShutdown has matched.
InitSession ==
    /\ pc = "session"
    /\ i = 1
    /\ mode = "daemon"
    /\ restore_on_exit = TRUE
    /\ running = TRUE
    /\ reload_requested = FALSE
    /\ profiles = <<>>
    /\ poll_interval = 0
    /\ cfg = NoCfg
    /\ new_profiles = <<>>
    /\ hwlog = <<>>
    /\ reload_result = "none"
    /\ snap = None
    /\ stop_at = None
    /\ cmd = NoCommand
    /\ after_reload = FALSE
    /\ hup_pending = "untracked"
    /\ store = {}
    /\ fs = NoSaves
    /\ monitor = FALSE
    /\ hist = <<>>
    /\ \E has_numfans \in BOOLEAN :
          probe = [op |-> "library", has_numfans |-> has_numfans, inits |-> 0]

\* NvmlController(gpu, fan), and the ManagedProfile that owns it when the
\* constructor returns.  hwlog holds the calls of the operation.
SessionOpen(gpu, fan) ==
    /\ Len(profiles) < MaxSessions
    /\ probe.inits < MaxInits
    /\ \E outcome \in (IF probe.has_numfans THEN OpenOutcomes(gpu, fan)
                        ELSE OpenOutcomesNoCount(gpu, fan)) :
          /\ hwlog' = OpenCalls(gpu, fan, outcome)
          /\ profiles' = IF outcome = "ok"
                         THEN Append(profiles,
                                     ManagedProfile(Entry(Num(gpu), Num(fan),
                                                          Missing, Missing)))
                         ELSE profiles
          /\ probe' = [op |-> "open", has_numfans |-> probe.has_numfans,
                       inits |-> IF outcome = "init_failed" THEN probe.inits
                                 ELSE probe.inits + 1,
                       gpu |-> gpu, fan |-> fan, outcome |-> outcome,
                       opened |-> (outcome = "ok")]
    /\ UNCHANGED sessionframe

\* ManagedProfile.close(restore_auto) on session n, closed before or not:
\* controller.shutdown() calls nvmlShutdown, which takes back one
\* initialisation of the library if there is one.
SessionClose(n, restore_auto) ==
    /\ n \in 1..Len(profiles)
    /\ profiles[n].closes < MaxCloses
    /\ \E done \in Close(profiles[n], restore_auto) :
          /\ profiles' = [profiles EXCEPT ![n] = done.profile]
          /\ hwlog' = done.calls
          /\ probe' = [op |-> "close", has_numfans |-> probe.has_numfans,
                       inits |-> Max(0, probe.inits - 1),
                       inits_before |-> probe.inits,
                       closes_before |-> profiles[n].closes]
    /\ UNCHANGED sessionframe

NextSession ==
    \/ \E gpu \in 0..NumDevices, fan \in (0 - 1)..NumFans : SessionOpen(gpu, fan)
    \/ \E n \in 1..MaxSessions, restore_auto \in BOOLEAN :
          SessionClose(n, restore_auto)

SpecSession == InitSession /\ [][NextSession]_vars

----------------------------------------------------------------------------
(* save_config: processes that save to the same configuration path.        *)

\* The processes that call save_config(path, ...) on one path, and the
\* write() calls it takes to write one snapshot.
NumSavers == 2
MaxChunks == 2

\* The k-th part of the snapshot that owner writes; owner 0 is the snapshot
\* the path held before.
Chunk(owner, k) == <<owner, k>>
Snapshot(owner) == [k \in 1..MaxChunks |-> Chunk(owner, k)]
Hole == <<"hole">>

\* A file of the directory is an inode: fs.inodes[n] is its content,
\* fs.path and fs.temp are the inodes the names path and path + ".tmp"
\* refer to, 0 when the name does not exist.
InitSave ==
    /\ pc = "pure"
    /\ i = 1
    /\ mode = "daemon"
    /\ restore_on_exit = TRUE
    /\ running = TRUE
    /\ reload_requested = FALSE
    /\ profiles = <<>>
    /\ poll_interval = 0
    /\ cfg = NoCfg
    /\ new_profiles = <<>>
    /\ hwlog = <<>>
    /\ reload_result = "none"
    /\ snap = None
    /\ stop_at = None
    /\ cmd = NoCommand
    /\ after_reload = FALSE
    /\ hup_pending = "untracked"
    /\ store = {}
    /\ monitor = FALSE
    /\ hist = <<>>
    /\ probe = [op |-> "none"]
    /\ \E existing \in {0, 1} :
          fs = [inodes |-> <<Snapshot(0)>>,
                path |-> existing,
                temp |-> 0,
                savers |-> [s \in 1..NumSavers |->
                              [pc |-> "start", fd |-> 0, k |-> 1]]]

\* save_config: open(temp_path, "w") creates the file or truncates the one
\* that has the name.
SaveOpen(s) ==
    /\ fs.savers[s].pc = "start"
    /\ LET inode == IF fs.temp = 0 THEN Len(fs.inodes) + 1 ELSE fs.temp
       IN  fs' = [fs EXCEPT
                    !.inodes = IF fs.temp = 0 THEN Append(@, <<>>)
                               ELSE [@ EXCEPT ![inode] = <<>>],
                    !.temp = inode,
                    !.savers[s] = [pc |-> "writing", fd |-> inode, k |-> 1]]
    /\ UNCHANGED nonfs

\* The content of a file after a write of chunk at position k.
WriteAt(content, k, chunk) ==
    [n \in 1..Max(Len(content), k) |->
        IF n = k THEN chunk
        ELSE IF n <= Len(content) THEN content[n] ELSE Hole]

\* save_config: json.dump and fh.write reach the file in write() calls at
\* the position of the open file; the with-block closes it after the last.
SaveWrite(s) ==
    /\ fs.savers[s].pc = "writing"
    /\ LET me == fs.savers[s]
       IN  fs' = [fs EXCEPT
                    !.inodes[me.fd] = WriteAt(@, me.k, Chunk(s, me.k)),
                    !.savers[s] = [pc |-> IF me.k = MaxChunks THEN "written"
                                          ELSE "writing",
                                   fd |-> me.fd, k |-> me.k + 1]]
    /\ UNCHANGED nonfs

\* save_config is ended by an OSError of a write or by the death of the
\* process, before os.replace.
SaveFail(s) ==
    /\ fs.savers[s].pc \in {"writing", "written"}
    /\ fs' = [fs EXCEPT !.savers[s].pc = "failed"]
    /\ UNCHANGED nonfs

\* save_config: os.replace(temp_path, path), which raises when the name
\* temp_path does not exist.
SaveReplace(s) ==
    /\ fs.savers[s].pc = "written"
    /\ IF fs.temp = 0
       THEN fs' = [fs EXCEPT !.savers[s].pc = "failed"]
       ELSE fs' = [fs EXCEPT !.path = fs.temp, !.temp = 0,
                             !.savers[s].pc = "done"]
    /\ UNCHANGED nonfs

NextSave ==
    \E s \in 1..NumSavers :
       \/ SaveOpen(s)
       \/ SaveWrite(s)
       \/ SaveFail(s)
       \/ SaveReplace(s)

SpecSave == InitSave /\ [][NextSave]_vars

----------------------------------------------------------------------------
(* normalize_config on drawn raw snapshots.                                *)

\* The most entries a drawn profile list has.
MaxEntries == 2

\* Raw curves: absent, not a list, empty, without a usable point, and one
\* out of order with two points at 50 degC and speeds outside [0, 100].
RawCurves ==
    {Missing, Bad, List(<<>>),
     List(<<[temperature |-> Bad, speed |-> Num(500)],
            [temperature |-> Num(400), speed |-> Missing]>>),
     List(<<Point(500, 1200), Point(300, -50), Point(500, 400)>>)}

\* Raw profile entries, and the ones a list is continued with.
RawEntries ==
    {Entry(gpu, fan, curve, hyst) :
        gpu \in {Missing, Bad, Num(1)}, fan \in {Missing, Num(0)},
        curve \in RawCurves, hyst \in {Missing, Bad, Num(-10)}}
MoreEntries ==
    {Entry(Bad, Num(0), Missing, Num(30)),
     Entry(Num(1), Num(0), Missing, Missing),
     Entry(Num(0), Bad, List(<<Point(600, 500)>>), Bad)}

\* Raw profile lists of n entries.
RECURSIVE EntryLists(_)
EntryLists(n) ==
    IF n = 0 THEN {<<>>}
    ELSE IF n = 1 THEN {<<e>> : e \in RawEntries}
    ELSE {Append(l, e) : l \in EntryLists(n - 1), e \in MoreEntries}

RawProfileLists ==
    {Missing, Bad} \cup {List(l) : l \in UNION {EntryLists(n) : n \in 0..MaxEntries}}

\* Raw snapshots: every key absent, invalid or given, the legacy top-level
\* keys included.
RawConfigs ==
    {Dict(poll, profs, gpu, fan, curve, hyst) :
        poll \in {Missing, Bad, Num(1), Num(30)},
        profs \in RawProfileLists,
        gpu \in {Missing, Bad, Num(1)},
        fan \in {Missing, Num(1)},
        curve \in {Missing, List(<<Point(600, 500)>>)},
        hyst \in {Missing, Bad, Num(-10)}}

InitNormalize ==
    /\ pc = "pure"
    /\ i = 1
    /\ mode = "daemon"
    /\ restore_on_exit = TRUE
    /\ running = TRUE
    /\ reload_requested = FALSE
    /\ profiles = <<>>
    /\ poll_interval = 0
    /\ cfg = NoCfg
    /\ new_profiles = <<>>
    /\ hwlog = <<>>
    /\ reload_result = "none"
    /\ snap = None
    /\ stop_at = None
    /\ cmd = NoCommand
    /\ after_reload = FALSE
    /\ hup_pending = "untracked"
    /\ store = {}
    /\ fs = NoSaves
    /\ monitor = FALSE
    /\ hist = <<>>
    /\ \E raw \in RawConfigs : probe = [op |-> "raw_in", raw |-> raw]

\* normalize_config(raw), and normalize_config of the result.
EvalNormalize ==
    /\ probe.op = "raw_in"
    /\ probe' = [op |-> "normalize", raw |-> probe.raw,
                 once |-> normalize_config(probe.raw),
                 twice |-> normalize_config(normalize_config(probe.raw))]
    /\ UNCHANGED <<dvars, monitor, hist>>

NextNormalize == EvalNormalize

SpecNormalize == InitNormalize /\ [][NextNormalize]_vars

----------------------------------------------------------------------------
(* Properties.                                                             *)

\* The entries of a call log that are calls of op.
CallsOf(log, op) == {k \in 1..Len(log) : log[k].op = op}

\* C1: a reload attempt that fails (load_config raises, or opening the
\* controller of one profile of the new snapshot fails) leaves the daemon as
\* it was: when reload_config returns, the profile list with every profile's
\* last speed and temperature and the poll interval equal what they were
\* when the attempt began, no live session has been shut down, the attempt
\* has made no setSpeed and no restoreAuto call, and the step that follows
\* starts the polling cycle of the same iteration over the unchanged list.
C1_FailedAttemptState ==
    (pc = "reload_clear" /\ reload_result \in {"load_failed", "build_failed"})
    => /\ profiles = Get(snap).profiles
       /\ poll_interval = Get(snap).poll_interval
       /\ \A k \in 1..Len(profiles) :
             profiles[k].closes = 0 /\ profiles[k].restore = "none"
       /\ CallsOf(hwlog, "setSpeed") = {}
       /\ CallsOf(hwlog, "restoreAuto") = {}
       /\ new_profiles = <<>>

C1_PolledNext ==
    (pc = "reload_clear" /\ pc' # pc)
    => /\ pc' = "poll"
       /\ i' = 1
       /\ profiles' = profiles
       /\ poll_interval' = poll_interval

C1_FailedReloadLeavesDaemonUnchanged ==
    [](C1_FailedAttemptState) /\ [][C1_PolledNext]_vars

\* C1 witness: a build that failed after opening two controllers, in a
\* daemon whose three profiles have all been applied.
C1_Witness ==
    /\ pc = "reload_clear"
    /\ reload_result = "build_failed"
    /\ Cardinality(CallsOf(hwlog, "nvmlShutdown")) = 2
    /\ Len(profiles) = 3
    /\ \A k \in 1..Len(profiles) : profiles[k].last_speed # None

\* The calls _close_profiles makes on the profiles from k on, given how each
\* restore ended: restoreAuto (when restore is on) and then nvmlShutdown,
\* profile after profile.
RECURSIVE ClosingCalls(_, _, _)
ClosingCalls(ps, k, restore) ==
    IF k > Len(ps) THEN <<>>
    ELSE (IF restore
          THEN <<Call("restoreAuto", ps[k].gpu_index, ps[k].fan_index, 0,
                      ps[k].restore = "ok")>>
          ELSE <<>>)
         \o <<Call("nvmlShutdown", ps[k].gpu_index, ps[k].fan_index, 0, TRUE)>>
         \o ClosingCalls(ps, k + 1, restore)

\* C2: when run() has returned, whenever the stop signal arrived and
\* whichever restores failed, every live profile has had restoreAuto
\* attempted (exactly when the restore policy is on) and then its session
\* shut down, once, in list order.
C2_ShutdownClosesEveryProfile ==
    pc = "Terminated"
    => /\ \A k \in 1..Len(profiles) :
             /\ profiles[k].closes = 1
             /\ (profiles[k].restore # "none") = restore_on_exit
       /\ hwlog = ClosingCalls(profiles, 1, restore_on_exit)

\* C2 witness: the stop signal arrived when two of three profiles had been
\* polled, and a restore failed during the shutdown.
C2_Witness ==
    /\ pc = "Terminated"
    /\ Len(profiles) = 3
    /\ stop_at = <<"poll", 3>>
    /\ restore_on_exit
    /\ profiles[2].restore = "failed"
    /\ profiles[3].restore = "ok"

\* C3 (as claimed): the one-shot mode, after its single polling cycle,
\* closes every session with restore disabled: when set_profiles([]) has
\* closed the last profile, every session has been shut down once and no
\* restoreAuto call has been made, whatever the restore policy.
C3_OneShotClosesWithoutRestore ==
    (mode = "once" /\ pc = "once_close" /\ i > Len(profiles))
    => /\ \A k \in 1..Len(profiles) : profiles[k].closes = 1
       /\ CallsOf(hwlog, "restoreAuto") = {}

\* C4: should_apply is true with no last speed; otherwise exactly when
\* |target - last| >= max(0.5, hysteresis), inclusive, a hysteresis below
\* 0.5 counting as 0.5; last 50 and hysteresis 2 give false for 51.4 and
\* true for 52.0.
C4_ShouldApply ==
    probe.op = "should_apply"
    => LET threshold == IF probe.hysteresis < 5 THEN 5 ELSE probe.hysteresis
           distance == IF probe.last_speed = None THEN 0
                       ELSE IF probe.target >= Get(probe.last_speed)
                            THEN probe.target - Get(probe.last_speed)
                            ELSE Get(probe.last_speed) - probe.target
       IN  /\ probe.last_speed = None => probe.out = TRUE
           /\ probe.last_speed # None => (probe.out = (distance >= threshold))
           /\ (probe.last_speed = Some(500) /\ probe.hysteresis = 20
               /\ probe.target = 514) => probe.out = FALSE
           /\ (probe.last_speed = Some(500) /\ probe.hysteresis = 20
               /\ probe.target = 520) => probe.out = TRUE

\* C4 witness: the inclusive boundary, last 50, hysteresis 2, target 52.0.
C4_Witness ==
    /\ probe.op = "should_apply"
    /\ probe.last_speed = Some(500)
    /\ probe.hysteresis = 20
    /\ probe.target = 520
    /\ probe.out = TRUE

\* C5: every speed handed to setSpeed lies in 10..100 and every recorded
\* last speed in [10.0, 100.0]; after a successful write the recorded last
\* speed is the curve's value at the recorded temperature clamped to
\* [10.0, 100.0], and the speed commanded is that value rounded.
C5_CommandedSpeedInRange ==
    /\ \A k \in CallsOf(hwlog, "setSpeed") :
          hwlog[k].arg >= 10 /\ hwlog[k].arg <= 100
    /\ \A k \in 1..Len(profiles) :
          profiles[k].last_speed # None
          => Get(profiles[k].last_speed) >= 100
             /\ Get(profiles[k].last_speed) <= 1000
    /\ (pc = "poll" /\ hwlog # <<>> /\ hwlog[Len(hwlog)].op = "setSpeed"
        /\ hwlog[Len(hwlog)].ok)
       => LET p == profiles[i - 1]
              target == value(p.curve, Get(p.last_temp))
              clamped == IF target < 100 THEN 100
                         ELSE IF target > 1000 THEN 1000 ELSE target
          IN  /\ p.last_speed = Some(clamped)
              /\ hwlog[Len(hwlog)].arg = RoundPercent(clamped)
              /\ hwlog[Len(hwlog) - 1].arg = Get(p.last_temp)

\* C5 witness: a curve that evaluates to 0 % has been applied as 10 %.
C5_Witness ==
    /\ pc = "poll"
    /\ i = 2
    /\ hwlog # <<>>
    /\ hwlog[Len(hwlog)] = Call("setSpeed", 0, 0, 10, TRUE)
    /\ value(profiles[1].curve, Get(profiles[1].last_temp)) = 0
    /\ profiles[1].last_speed = Some(100)

\* The library calls of the scenario of C6 on GPU 0 fan 0.
ScenarioInit == Call("nvmlInit", 0, 0, 0, TRUE)
ScenarioRead(t) == Call("getTemp", 0, 0, t, TRUE)
ScenarioWrite(percent) == Call("setSpeed", 0, 0, percent, TRUE)

\* The daemon runs one profile with the curve (30,25) (50,45) (70,75) and
\* hysteresis 2, whose controller it opened at startup, and every call since
\* then was a successful temperature read or speed write.
ScenarioRunning ==
    /\ monitor
    /\ mode = "daemon"
    /\ Len(profiles) = 1
    /\ profiles[1].curve = << [temperature |-> 300, speed |-> 250],
                              [temperature |-> 500, speed |-> 450],
                              [temperature |-> 700, speed |-> 750] >>
    /\ profiles[1].hysteresis = 20
    /\ hist # <<>>
    /\ hist[1] = ScenarioInit
    /\ \A k \in 2..Len(hist) : hist[k].op \in {"getTemp", "setSpeed"} /\ hist[k].ok

\* The temperatures read, in order.
RECURSIVE ReadsOf(_)
ReadsOf(log) ==
    IF log = <<>> THEN <<>>
    ELSE (IF Head(log).op = "getTemp" THEN <<Head(log).arg>> ELSE <<>>)
         \o ReadsOf(Tail(log))

\* C6 (as claimed): the temperatures 45, 45.5, 60 in three consecutive
\* cycles yield a write of 45, no write, and a write of 75.
C6_ScenarioAsClaimed ==
    (ScenarioRunning /\ ReadsOf(hist) = <<450, 455, 600>>)
    => hist = <<ScenarioInit, ScenarioRead(450), ScenarioWrite(45),
                ScenarioRead(455), ScenarioRead(600), ScenarioWrite(75)>>

\* C6 (amended): the temperatures 45, 45.5, 60 in three consecutive cycles
\* yield a write of 25 in the first cycle, no write in the second, and a
\* write of 45 in the third.
C6_ScenarioStepFunction ==
    /\ (ScenarioRunning /\ ReadsOf(hist) = <<450>>)
       => hist = <<ScenarioInit, ScenarioRead(450), ScenarioWrite(25)>>
    /\ (ScenarioRunning /\ ReadsOf(hist) = <<450, 455>>)
       => hist = <<ScenarioInit, ScenarioRead(450), ScenarioWrite(25),
                   ScenarioRead(455)>>
    /\ (ScenarioRunning /\ ReadsOf(hist) = <<450, 455, 600>>)
       => hist = <<ScenarioInit, ScenarioRead(450), ScenarioWrite(25),
                   ScenarioRead(455), ScenarioRead(600), ScenarioWrite(45)>>

\* C6 witness: the third cycle of the scenario has written.
C6_Witness ==
    /\ ScenarioRunning
    /\ ReadsOf(hist) = <<450, 455, 600>>
    /\ pc = "poll"
    /\ i = 2
    /\ profiles[1].last_speed = Some(450)
    /\ profiles[1].last_temp = Some(600)

\* Point k of the supplied list comes before point j in ascending
\* temperature order, points of equal temperature in the order supplied.
Before(points, k, j) ==
    \/ points[k].temperature < points[j].temperature
    \/ points[k].temperature = points[j].temperature /\ k < j

\* The speed C7 expects at temperature t: that of the last point, in
\* ascending temperature order, whose temperature is <= t, and that of the
\* first point when t is below them all.
ExpectedValue(points, t) ==
    LET at_or_below == {k \in 1..Len(points) : points[k].temperature <= t}
        last == CHOOSE k \in at_or_below :
                    \A j \in at_or_below \ {k} : Before(points, j, k)
        first == CHOOSE k \in 1..Len(points) :
                    \A j \in (1..Len(points)) \ {k} : Before(points, k, j)
    IN  IF at_or_below = {} THEN points[first].speed ELSE points[last].speed

\* C7: for every non-empty list of points, in whatever order, and every
\* temperature t, value(t) is the speed of the last point in ascending
\* temperature order whose temperature is <= t; below the lowest point it is
\* the lowest point's speed, at or above the highest point it is the highest
\* point's speed; it is always the speed of one of the points.
C7_ValueIsStepFunction ==
    probe.op = "value"
    => LET points == probe.points
           lowest == CHOOSE k \in 1..Len(points) :
                        \A j \in 1..Len(points) :
                           points[k].temperature <= points[j].temperature
           highest == CHOOSE k \in 1..Len(points) :
                        \A j \in 1..Len(points) :
                           points[k].temperature >= points[j].temperature
       IN  /\ probe.v1 = ExpectedValue(points, probe.t1)
           /\ probe.v2 = ExpectedValue(points, probe.t2)
           /\ \E k \in 1..Len(points) : points[k].speed = probe.v1
           /\ probe.t1 < points[lowest].temperature
              => \E k \in 1..Len(points) :
                    /\ points[k].temperature = points[lowest].temperature
                    /\ points[k].speed = probe.v1
           /\ probe.t2 >= points[highest].temperature
              => \E k \in 1..Len(points) :
                    /\ points[k].temperature = points[highest].temperature
                    /\ points[k].speed = probe.v2

\* C7 witness: points supplied out of order, one temperature below them all
\* and one between two of them.
C7_Witness ==
    /\ probe.op = "value"
    /\ probe.points = << [temperature |-> 500, speed |-> 450],
                         [temperature |-> 700, speed |-> 750],
                         [temperature |-> 300, speed |-> 250] >>
    /\ probe.t1 = 200
    /\ probe.v1 = 250
    /\ probe.t2 = 450
    /\ probe.v2 = 250

\* C8 (as claimed): for every non-empty curve and t1 <= t2,
\* value(t1) <= value(t2).
C8_MonotoneAsClaimed ==
    probe.op = "value" => probe.v1 <= probe.v2

\* The speeds do not decrease along the points in ascending temperature
\* order (points of equal temperature in the order supplied).
SpeedsNonDecreasing(points) ==
    \A k, j \in 1..Len(points) :
       Before(points, k, j) => points[k].speed <= points[j].speed

\* C8 (amended): for every non-empty curve whose speeds do not decrease
\* along its points in ascending temperature order, and t1 <= t2,
\* value(t1) <= value(t2).
C8_MonotoneForNonDecreasingSpeeds ==
    (probe.op = "value" /\ SpeedsNonDecreasing(probe.points))
    => probe.v1 <= probe.v2

\* C8 witness: a rising curve supplied out of order, evaluated on two of
\* its steps.
C8_Witness ==
    /\ probe.op = "value"
    /\ probe.points = << [temperature |-> 500, speed |-> 450],
                         [temperature |-> 300, speed |-> 250] >>
    /\ SpeedsNonDecreasing(probe.points)
    /\ probe.t1 = 300
    /\ probe.t2 = 500
    /\ probe.v1 = 250
    /\ probe.v2 = 450

\* The gate as C9 expects it for a profile and a target.
Gated(p, target) ==
    \/ p.last_speed = None
    \/ target - Get(p.last_speed) >= Max(5, p.hysteresis)
    \/ Get(p.last_speed) - target >= Max(5, p.hysteresis)

\* Whether the calls log, made during one polling cycle, are those of
\* polling the profiles k .. n in order, each profile exactly once: a
\* temperature read; after a failed read nothing more; after a successful
\* read either no write, the gate being closed, or a write of the curve's
\* value clamped and rounded, whose result the profile records if it
\* succeeded and does not if it failed.
RECURSIVE PolledInOrder(_, _, _)
PolledInOrder(log, k, n) ==
    IF k > n THEN log = <<>>
    ELSE LET p == profiles[k]
         IN  /\ log # <<>>
             /\ log[1].op = "getTemp"
             /\ log[1].gpu = p.gpu_index
             /\ log[1].fan = p.fan_index
             /\ IF ~log[1].ok THEN PolledInOrder(Tail(log), k + 1, n)
                ELSE LET target == value(p.curve, log[1].arg)
                         wrote == Len(log) >= 2 /\ log[2].op = "setSpeed"
                     IN  IF wrote
                         THEN /\ log[2].gpu = p.gpu_index
                              /\ log[2].fan = p.fan_index
                              /\ IF log[2].ok
                                 THEN /\ p.last_temp = Some(log[1].arg)
                                      /\ p.last_speed # None
                                      /\ log[2].arg =
                                            RoundPercent(Get(p.last_speed))
                                 ELSE Gated(p, target)
                              /\ PolledInOrder(SubSeq(log, 3, Len(log)), k + 1, n)
                         ELSE /\ ~Gated(p, target)
                              /\ PolledInOrder(Tail(log), k + 1, n)

\* At every point of a polling cycle the profiles before the current one
\* have all been polled, whatever errors occurred among them.
C9_CycleState ==
    pc = "poll" => PolledInOrder(hwlog, 1, i - 1)

\* A step of the polling cycle polls the current profile and moves to the
\* next one; it writes exactly when the gate is open for the profile as it
\* was before the step, and it changes no other profile.
C9_PollStep ==
    (pc = "poll" /\ pc' = "poll" /\ i' # i)
    => /\ i' = i + 1
       /\ Len(hwlog') > Len(hwlog)
       /\ \A j \in 1..Len(profiles) : j # i => profiles'[j] = profiles[j]
       /\ LET read == hwlog'[Len(hwlog) + 1]
              wrote == Len(hwlog') = Len(hwlog) + 2
          IN  /\ read.op = "getTemp"
              /\ read.ok
                 => (wrote = Gated(profiles[i],
                                   value(profiles[i].curve, read.arg)))
              /\ ~read.ok => (~wrote /\ profiles' = profiles)

\* The polling cycle ends only after the last profile.
C9_CycleEnd ==
    (pc = "poll" /\ pc' # pc) => i = Len(profiles) + 1

\* C9: within one polling cycle a HardwareError raised by the temperature
\* read or the speed write of one profile skips only that profile: every
\* profile of the list is read, evaluated and gated once, in order, in that
\* cycle, the outcome for each depending only on its own state, sample and
\* errors.
C9_ErrorSkipsOnlyThatProfile ==
    [](C9_CycleState) /\ [][C9_PollStep /\ C9_CycleEnd]_vars

\* C9 witness: the end of a cycle over three profiles in which the read of
\* the first failed, the write of the second failed and the third was
\* written.
C9_Witness ==
    /\ pc = "poll"
    /\ Len(profiles) = 3
    /\ i = 4
    /\ Len(hwlog) = 5
    /\ ~hwlog[1].ok
    /\ hwlog[3].op = "setSpeed" /\ ~hwlog[3].ok
    /\ hwlog[5].op = "setSpeed" /\ hwlog[5].ok

\* run() is past its while-loop.
LoopExited == pc \in {"finally", "Terminated"}

\* The loop is left only from its top.
C10_ExitStep ==
    (LoopExited' /\ ~LoopExited) => (pc = "run_top" /\ ~running)

\* While running, the top of the loop starts a new iteration, and the end
\* of a reload attempt or of a polling cycle leads on to the sleep and the
\* next top of the loop.
C10_GoesOn ==
    /\ (pc = "run_top" /\ running /\ pc' # pc) => pc' = "check_reload"
    /\ (pc = "reload_clear" /\ pc' # pc) => pc' = "poll"
    /\ (mode = "daemon" /\ pc = "poll" /\ pc' # pc) => pc' = "sleep"
    /\ (pc = "sleep" /\ pc' # pc) => pc' = "run_top"

\* C10: the daemon loop is left, and Terminated reached, only after a stop
\* signal: no HardwareError in a polling cycle and no failed reload ends
\* the loop, which goes on to its next iteration while it is running.
C10_TerminatedOnlyAfterStop ==
    /\ [](LoopExited => (~running /\ stop_at # None))
    /\ [][C10_ExitStep /\ C10_GoesOn]_vars

\* C10 witness: the loop is at its top, still running, after a cycle in
\* which the poll of one profile failed while another was written.
C10_Witness ==
    /\ pc = "run_top"
    /\ running
    /\ stop_at = None
    /\ \E k \in 1..Len(profiles) : profiles[k].last_speed = None
    /\ \E k \in 1..Len(profiles) : profiles[k].last_speed # None

\* The positions of a reload attempt.
InReload ==
    pc \in {"reload_load", "reload_build", "reload_close", "reload_clear"}

\* After a stop no iteration is started: the loop body is entered from the
\* top of the loop only while running, and from the top a stopped loop goes
\* to its finally clause.
C11_NoNewIteration ==
    /\ (pc' = "check_reload" /\ pc # "check_reload") => running
    /\ (pc = "run_top" /\ ~running /\ pc' # pc) => pc' = "finally"

\* The iteration in progress when the stop arrives is completed: a stopped
\* cycle still polls its remaining profiles and ends after the last one.
C11_IterationCompletes ==
    /\ (pc = "poll" /\ pc' # pc) => i > Len(profiles)
    /\ (pc = "poll" /\ ~running /\ i' # i /\ pc' = pc)
       => (i' = i + 1 /\ Len(hwlog') > Len(hwlog))

\* A reload is in progress in a stopped daemon only as part of the
\* iteration the stop arrived in.
C11_NoFurtherReload ==
    (mode = "daemon" /\ ~running /\ InReload)
    => (stop_at # None /\ (stop_at[1] = "check_reload"
                           \/ stop_at[1] \in {"reload_load", "reload_build",
                                              "reload_close", "reload_clear"}))

\* C11: a stop signal is honoured at the next test at the top of the loop:
\* the iteration in progress is completed, its remaining profiles polled,
\* no further iteration and no reload beyond that iteration is started, the
\* flag once cleared is never set again, whatever hang-ups follow, and the
\* daemon eventually closes its profiles and reaches Terminated.
C11_StopHonoredAtLoopTop ==
    /\ [][C11_NoNewIteration /\ C11_IterationCompletes
          /\ (running' => running)]_vars
    /\ [](C11_NoFurtherReload)
    /\ ((mode = "daemon" /\ ~running) ~> (pc = "Terminated"))

\* C11 witness: Terminated is reached after a stop that arrived in a cycle
\* when one of two profiles had been polled, the other being polled after
\* it, and a hang-up having arrived since.
C11_Witness ==
    /\ pc = "Terminated"
    /\ stop_at = <<"poll", 2>>
    /\ Len(profiles) = 2
    /\ reload_requested
    /\ \A k \in 1..2 : profiles[k].closes = 1
    /\ profiles[2].last_speed # None

\* What a profile is built with.
Static(p) ==
    [gpu_index |-> p.gpu_index, fan_index |-> p.fan_index,
     curve |-> p.curve, hysteresis |-> p.hysteresis]

\* Whether the profiles ps are those of the snapshot c, entry by entry.
BuiltFrom(ps, c) ==
    /\ Len(ps) = Len(Entries(c))
    /\ \A k \in 1..Len(ps) : Static(ps[k]) = Static(ManagedProfile(Entries(c)[k]))

\* For each content the configuration path can hold, what a daemon running
\* on it is built with: the profiles and the poll interval.
SnapshotOf ==
    [content \in ConfigContents \cup LiveContents |->
        LET c == load_config(content)
        IN  [profiles |-> [k \in 1..Len(Entries(c)) |->
                              Static(ManagedProfile(Entries(c)[k]))],
             poll_interval |-> Max(MinPollInterval, c.poll_interval[2])]]

\* Whether the live profiles and the poll interval are those of one
\* snapshot the configuration path can hold.
OneSnapshot ==
    \E content \in store :
       /\ [k \in 1..Len(profiles) |-> Static(profiles[k])]
             = SnapshotOf[content].profiles
       /\ poll_interval = SnapshotOf[content].poll_interval

\* The sessions of the profiles ps, opened in order.
Opens(ps) ==
    [k \in 1..Len(ps) |->
        Call("nvmlInit", ps[k].gpu_index, ps[k].fan_index, 0, TRUE)]

\* While the new set is being built no old profile has been closed.
C12_Building ==
    pc = "reload_build"
    => \A k \in 1..Len(profiles) :
          profiles[k].closes = 0 /\ profiles[k].restore = "none"

\* The old profiles are closed only once the whole new set is open, in list
\* order, with the restore policy of shutdown; the poll interval is already
\* the new snapshot's.
C12_ClosingOld ==
    pc = "reload_close"
    => /\ BuiltFrom(new_profiles, cfg)
       /\ poll_interval = Max(MinPollInterval, cfg.poll_interval[2])
       /\ hwlog = Opens(new_profiles)
                  \o ClosingCalls(SubSeq(profiles, 1, i - 1), 1, restore_on_exit)
       /\ \A k \in 1..Len(profiles) :
             /\ profiles[k].closes = (IF k < i THEN 1 ELSE 0)
             /\ (profiles[k].restore # "none") = (k < i /\ restore_on_exit)

\* When reload_config returns from a successful reload the live set is the
\* new set, open and not yet applied, with the new snapshot's interval.
C12_Swapped ==
    (pc = "reload_clear" /\ reload_result = "ok")
    => /\ OneSnapshot
       /\ Len(hwlog) >= Len(profiles) + Len(Get(snap).profiles)
       /\ SubSeq(hwlog, 1, Len(profiles)) = Opens(profiles)
       /\ \A k \in 1..Len(profiles) :
             /\ profiles[k].closes = 0
             /\ profiles[k].last_speed = None

\* The swap replaces the list and nothing else, after the last old profile
\* was closed.
C12_SwapStep ==
    (pc = "reload_close" /\ pc' # pc)
    => /\ i > Len(profiles)
       /\ profiles' = new_profiles
       /\ poll_interval' = poll_interval
       /\ pc' = "reload_clear"

\* C12: on a reload whose whole new set is built, no old profile is closed
\* before every new session is open; then every old profile is closed with
\* the restore policy of shutdown, the live set becomes the new profiles and
\* the poll interval the new snapshot's, floored at 0.5 s; every polling
\* cycle runs on the profiles and the interval of one snapshot.
C12_ReloadSwapsWholeSet ==
    /\ [](C12_Building /\ C12_ClosingOld /\ C12_Swapped)
    /\ [](pc = "poll" => OneSnapshot)
    /\ [][C12_SwapStep]_vars

\* C12 witness: a reload has replaced three applied profiles polled every
\* 0.5 s by one profile polled every 2 s, after restoring and closing the
\* three.
C12_Witness ==
    /\ pc = "reload_clear"
    /\ reload_result = "ok"
    /\ Len(profiles) = 1
    /\ poll_interval = 20
    /\ Get(snap).poll_interval = MinPollInterval
    /\ Len(Get(snap).profiles) = 3
    /\ \A k \in 1..3 : Get(snap).profiles[k].last_speed # None
    /\ Cardinality(CallsOf(hwlog, "restoreAuto")) = 3
    /\ Cardinality(CallsOf(hwlog, "nvmlShutdown")) = 3

\* A hang-up sets the flag and changes nothing else of the daemon.
C13_HupSets ==
    (reload_requested' /\ ~reload_requested)
    => UNCHANGED <<pc, i, running, profiles, poll_interval, hwlog>>

\* The flag is tested after the loop test of an iteration and before its
\* polling cycle: set, one reload attempt starts; clear, none does.
C13_Consumed ==
    /\ (pc = "check_reload" /\ pc' # pc)
       => pc' = (IF reload_requested THEN "reload_load" ELSE "poll")
    /\ (pc' = "reload_load" /\ pc # pc') => pc = "check_reload"
    /\ (pc' = "check_reload" /\ pc # pc') => pc = "run_top"

\* The flag is cleared when the attempt is over, however it ended, and
\* nowhere else; the polling cycle of the iteration follows.
C13_Cleared ==
    /\ (pc = "reload_clear" /\ pc' # pc)
       => (~reload_requested' /\ pc' = "poll" /\ i' = 1)
    /\ (reload_requested /\ ~reload_requested') => pc = "reload_clear"

\* During the attempt no profile is polled.
C13_BeforePolling ==
    InReload => (CallsOf(hwlog, "getTemp") = {} /\ CallsOf(hwlog, "setSpeed") = {})

\* C13: a hang-up sets the reload flag; the flag is consumed at the top of
\* the next iteration, where exactly one reload attempt is made before any
\* profile is polled, and it is cleared after the attempt whether it
\* succeeded or failed, so that a failed reload is retried only after
\* another hang-up.
C13_ReloadFlagConsumedOnce ==
    /\ [][C13_HupSets /\ C13_Consumed /\ C13_Cleared]_vars
    /\ [](C13_BeforePolling)

\* C13 witness: a reload attempt whose build failed is over, the flag still
\* set and about to be cleared, in a running daemon.
C13_Witness ==
    /\ pc = "reload_clear"
    /\ reload_result = "build_failed"
    /\ reload_requested
    /\ running
    /\ Len(profiles) = 3

\* The library initialisations that succeeded, among the calls of log.
InitsOf(log) == {k \in CallsOf(log, "nvmlInit") : log[k].ok}

\* C14: when the construction of a profile set has failed, at startup or in
\* a reload, every session the attempt opened is closed, that of the failing
\* profile included: the attempt made as many nvmlShutdown calls as
\* nvmlInit_v2 calls that succeeded; and a startup that failed has installed
\* no profile.
C14_FailedBuildClosesAllItOpened ==
    (pc = "exit_failed" \/ (pc = "reload_clear" /\ reload_result = "build_failed"))
    => /\ Cardinality(InitsOf(hwlog))
             = Cardinality(CallsOf(hwlog, "nvmlShutdown"))
       /\ pc = "exit_failed" => (profiles = <<>> /\ new_profiles = <<>>)

\* C15: in every state of the daemon after startup and after any reload,
\* no two live profiles have the same pair of GPU index and fan index, and
\* both indices of every live profile are at least 0.
C15_LivePairsUniqueAndNonNegative ==
    /\ \A j, k \in 1..Len(profiles) :
          (j # k) => (<<profiles[j].gpu_index, profiles[j].fan_index>>
                      # <<profiles[k].gpu_index, profiles[k].fan_index>>)
    /\ \A k \in 1..Len(profiles) :
          profiles[k].gpu_index >= 0 /\ profiles[k].fan_index >= 0

\* The raw curve that is out of order, has two points at 50 degC and speeds
\* outside [0, 100].
UnsortedRawCurve == List(<<Point(500, 1200), Point(300, -50), Point(500, 400)>>)

\* C16: normalisation is idempotent: for every raw snapshot normalize_config
\* accepts, normalising the normalised snapshot gives the normalised
\* snapshot.
C16_NormalizeIdempotent ==
    probe.op = "normalize" => probe.twice = probe.once

\* C16 witness: a normalised snapshot whose raw form had a poll interval
\* below the floor, a legacy top-level negative hysteresis, and a list of an
\* entry with the unsorted out-of-range curve and no hysteresis followed by
\* an entry with an invalid index.
C16_Witness ==
    /\ probe.op = "normalize"
    /\ probe.raw.poll_interval = Num(1)
    /\ probe.raw.hysteresis = Num(-10)
    /\ IsList(probe.raw.profiles)
    /\ Len(probe.raw.profiles[2]) = 2
    /\ probe.raw.profiles[2][1].gpu_index = Num(1)
    /\ probe.raw.profiles[2][1].curve = UnsortedRawCurve
    /\ probe.raw.profiles[2][1].hysteresis = Missing
    /\ probe.raw.profiles[2][2].gpu_index = Bad
    /\ probe.once # probe.raw
    /\ probe.twice = probe.once

\* The entries of a raw snapshot that carries a profile list.
GivenEntries(raw) ==
    IF IsList(raw.profiles) THEN raw.profiles[2] ELSE <<>>

\* An index that is absent or a number.
IndexUsable(x) == x = Missing \/ IsNum(x)
BothIndicesUsable(entry) ==
    IndexUsable(entry.gpu_index) /\ IndexUsable(entry.fan_index)

\* The index, the hysteresis and the poll interval the defaults rule gives.
IndexOrDefault(x) == IF IsNum(x) THEN x ELSE Num(0)
HysteresisRule(given, out) ==
    /\ IsNum(given) => out = given
    /\ given = Bad => out = Num(20)
PollRule(given, out) ==
    /\ IsNum(given) => out = Num(Max(5, given[2]))
    /\ ~IsNum(given) => out = Num(20)

\* C17 as stated: every entry of the list is kept, an index that is missing
\* or not numeric becoming 0, an invalid hysteresis 2.0 and an invalid poll
\* interval 2.0.
C17_EveryEntryKept ==
    (probe.op = "normalize" /\ GivenEntries(probe.raw) # <<>>)
    => LET given == GivenEntries(probe.raw)
           out == probe.once.profiles[2]
       IN  /\ Len(out) = Len(given)
           /\ \A k \in 1..Len(given) :
                 /\ out[k].gpu_index = IndexOrDefault(given[k].gpu_index)
                 /\ out[k].fan_index = IndexOrDefault(given[k].fan_index)
                 /\ HysteresisRule(given[k].hysteresis, out[k].hysteresis)
           /\ PollRule(probe.raw.poll_interval, probe.once.poll_interval)

\* C17, amended: the entries whose indices are each missing or numeric are
\* kept, in order, a missing index becoming 0; an entry with an index that is
\* present and not numeric is dropped; an invalid hysteresis becomes 2.0 and
\* an invalid poll interval 2.0.
C17_DefaultsOrDropped ==
    (probe.op = "normalize" /\ GivenEntries(probe.raw) # <<>>)
    => LET given == SelectSeq(GivenEntries(probe.raw), BothIndicesUsable)
           out == probe.once.profiles[2]
       IN  /\ given # <<>>
              => /\ Len(out) = Len(given)
                 /\ \A k \in 1..Len(given) :
                       /\ out[k].gpu_index = IndexOrDefault(given[k].gpu_index)
                       /\ out[k].fan_index = IndexOrDefault(given[k].fan_index)
                       /\ HysteresisRule(given[k].hysteresis, out[k].hysteresis)
           /\ PollRule(probe.raw.poll_interval, probe.once.poll_interval)

\* C17 witness: of two entries the first, with a missing fan index and an
\* invalid hysteresis, is kept with fan 0 and hysteresis 2.0, the second,
\* with a GPU index that is not numeric, is dropped; the invalid poll
\* interval has become 2.0.
C17_Witness ==
    /\ probe.op = "normalize"
    /\ Len(GivenEntries(probe.raw)) = 2
    /\ GivenEntries(probe.raw)[1].gpu_index = Num(1)
    /\ GivenEntries(probe.raw)[1].fan_index = Missing
    /\ GivenEntries(probe.raw)[1].hysteresis = Bad
    /\ GivenEntries(probe.raw)[2].gpu_index = Bad
    /\ probe.raw.poll_interval = Bad
    /\ Len(probe.once.profiles[2]) = 1
    /\ probe.once.profiles[2][1].gpu_index = Num(1)
    /\ probe.once.profiles[2][1].fan_index = Num(0)
    /\ probe.once.profiles[2][1].hysteresis = Num(20)
    /\ probe.once.poll_interval = Num(20)

\* The raw snapshot has a list and none of its entries is usable.
NoValidEntry(raw) ==
    /\ GivenEntries(raw) # <<>>
    /\ SelectSeq(GivenEntries(raw), BothIndicesUsable) = <<>>

\* A normalised snapshot has a profile and a poll interval of 0.5 s or more.
NeverEmptyNeverFast(out) ==
    /\ IsList(out.profiles)
    /\ out.profiles[2] # <<>>
    /\ IsNum(out.poll_interval)
    /\ out.poll_interval[2] >= 5

\* C18 as stated: a missing, empty or wholly invalid profile list gives
\* exactly the default profile, whatever else the raw snapshot carries.
C18_DefaultProfileWhateverElse ==
    probe.op = "normalize"
    => /\ (GivenEntries(probe.raw) = <<>> \/ NoValidEntry(probe.raw))
          => probe.once.profiles = List(<<DEFAULT_PROFILE>>)
       /\ NeverEmptyNeverFast(probe.once)

\* C18, amended: a missing or empty profile list gives exactly one profile,
\* made of the top-level GPU index, fan index, curve and hysteresis where
\* the raw snapshot has them and of the defaults where it has not, which is
\* the default profile when it has none of them or when a top-level index
\* is not numeric; a list without a valid entry gives exactly the default
\* profile; the result always has a profile and a poll interval of 0.5 s or
\* more.
C18_OneProfileFromTopLevelOrDefault ==
    probe.op = "normalize"
    => LET raw == probe.raw
           out == probe.once.profiles[2]
       IN  /\ NoValidEntry(raw) => out = <<DEFAULT_PROFILE>>
           /\ GivenEntries(raw) = <<>>
              => /\ Len(out) = 1
                 /\ (raw.gpu_index = Bad \/ raw.fan_index = Bad)
                    => out = <<DEFAULT_PROFILE>>
                 /\ (raw.gpu_index = Missing /\ raw.fan_index = Missing
                     /\ raw.curve = Missing /\ raw.hysteresis = Missing)
                    => out = <<DEFAULT_PROFILE>>
                 /\ (raw.gpu_index # Bad /\ raw.fan_index # Bad)
                    => /\ out[1].gpu_index = IndexOrDefault(raw.gpu_index)
                       /\ out[1].fan_index = IndexOrDefault(raw.fan_index)
                       /\ raw.curve = Missing => out[1].curve = DEFAULT_CURVE
                       /\ raw.curve = List(<<Point(600, 500)>>)
                          => out[1].curve = raw.curve
                       /\ out[1].hysteresis =
                             (IF IsNum(raw.hysteresis) THEN raw.hysteresis
                              ELSE Num(20))
           /\ NeverEmptyNeverFast(probe.once)

\* C18 witness: a snapshot without a profile list and with a top-level GPU
\* index 1, curve and hysteresis -1.0 gives one profile on GPU 1 with that
\* curve and hysteresis, and the poll interval 0.1 s becomes 0.5 s.
C18_Witness ==
    /\ probe.op = "normalize"
    /\ probe.raw.profiles = Missing
    /\ probe.raw.gpu_index = Num(1)
    /\ probe.raw.curve # Missing
    /\ probe.raw.hysteresis = Num(-10)
    /\ probe.raw.poll_interval = Num(1)
    /\ Len(probe.once.profiles[2]) = 1
    /\ probe.once.profiles[2][1].gpu_index = Num(1)
    /\ probe.once.profiles[2][1].hysteresis = Num(-10)
    /\ probe.once.poll_interval = Num(5)

\* A curve of CurvePoint that has a point and whose temperatures strictly
\* ascend.
StrictlyAscending(points) ==
    /\ points # <<>>
    /\ \A k \in 1..(Len(points) - 1) :
          points[k].temperature < points[k + 1].temperature

\* C19: the curve of every profile of a normalised snapshot, and of every
\* live profile, has a point and strictly ascending temperatures, points of
\* one temperature in the raw input having been collapsed to one.
C19_CurvesStrictlyAscending ==
    /\ \A k \in 1..Len(Entries(cfg)) :
          StrictlyAscending(CurvePoints(Entries(cfg)[k].curve[2]))
    /\ \A k \in 1..Len(profiles) : StrictlyAscending(profiles[k].curve)

\* A file content that is one whole snapshot.
Complete(content) == \E owner \in 0..NumSavers : content = Snapshot(owner)

\* C20: at every point of a save, a failure between the writing and the
\* renaming and two saves interleaving included, the configuration path
\* holds a whole previous snapshot or a whole new one, never a part of one
\* or a mix.
C20_PathAlwaysHoldsWholeSnapshot ==
    (fs.savers # <<>> /\ fs.path # 0) => Complete(fs.inodes[fs.path])

\* The number of calls op in calls.
RECURSIVE CountCalls(_, _)
CountCalls(calls, op) ==
    IF calls = <<>> THEN 0
    ELSE (IF Head(calls).op = op THEN 1 ELSE 0) + CountCalls(Tail(calls), op)

\* Whether the command has returned or ended with an exception.
CommandEnded == pc \in {"cmd_exit", "cmd_failed"}

\* C21: the restore-only operation attempts every selected profile: when it
\* has ended it has made the attempt to open a session for each, and every
\* session it opened is closed; a failure to open or to restore one profile
\* does not keep it from the profiles after it.
C21_EverySelectedProfileAttempted ==
    (mode = "restore_auto" /\ CommandEnded)
        => /\ CountCalls(hwlog, "nvmlInit") = Len(cmd.targets)
           /\ \A n \in 1..Len(cmd.controllers) : cmd.controllers[n].closes = 1

\* A step of the status query: it makes no set_fan_speed() and no
\* restore_auto() call and changes neither the configuration, the
\* configuration path, nor any profile of a daemon.
C22_StatusStep ==
    mode = "status"
        => /\ UNCHANGED <<cfg, store, fs, profiles, new_profiles, poll_interval>>
           /\ \A n \in 1..Len(NewCalls) :
                 NewCalls[n].op \in {"nvmlInit", "getHandle", "getNumFans",
                                     "getTemp", "getSpeed", "nvmlShutdown"}

\* Every session the status query has opened is closed, once, when it has
\* ended, and at most the session of the pass is open before.
C22_SessionsClosed ==
    mode = "status"
        => /\ \A n \in 1..Len(cmd.controllers) :
                 cmd.controllers[n].closes =
                    IF n = Len(cmd.controllers) /\ pc = "cmd_call" THEN 0 ELSE 1
           /\ CommandEnded
                 => CountCalls(hwlog, "nvmlShutdown") = Len(cmd.controllers)

\* C22: the status query is read-only: whatever profiles are selected, it
\* calls neither setFanSpeed nor restoreAutomaticControl, changes no
\* profile's last-applied state and no configuration, and every session it
\* opens is closed when it returns, also when a read fails.
C22_StatusReadOnly == [](C22_SessionsClosed) /\ [][C22_StatusStep]_vars

\* C22 witness: the status query has ended on the failure of the speed read
\* of its second profile, with both sessions closed.
C22_Witness ==
    /\ mode = "status"
    /\ pc = "cmd_failed"
    /\ i = 2
    /\ Len(cmd.controllers) = 2
    /\ Len(cmd.reported) = 1
    /\ \E n \in 1..Len(hwlog) : hwlog[n].op = "getSpeed" /\ ~hwlog[n].ok
    /\ \A n \in 1..2 : cmd.controllers[n].closes = 1

\* C23: closing a session is idempotent: the close of a session that is
\* closed already makes no library call and does not release the library
\* again.
C23_CloseIdempotent ==
    (pc = "session" /\ probe.op = "close" /\ probe.closes_before >= 1)
        => /\ hwlog = <<>>
           /\ probe.inits = probe.inits_before

\* The state of the process apart from the two flags and the ghosts.
C24_Process ==
    <<pc, i, mode, restore_on_exit, profiles, poll_interval, cfg, new_profiles,
      hwlog>>

\* A step that is a signal's: it changes a flag and nothing else of the
\* process, makes no library call and closes no session.
C24_SignalStep ==
    (running' # running \/ (reload_requested' /\ ~reload_requested))
        => UNCHANGED C24_Process

\* Whether the step closes a session of the live set or makes a library
\* call on one that is closed.
C24_ClosesSession ==
    \E k \in 1..Min(Len(profiles), Len(profiles')) :
       profiles'[k].closes > profiles[k].closes
C24_CallsClosedSession ==
    /\ pc = "poll"
    /\ i <= Len(profiles)
    /\ NewCalls # <<>>
    /\ profiles[i].closes > 0

\* C24: SIGTERM, SIGINT and SIGHUP only set a flag; every library call of a
\* polling cycle of the daemon is made on an open session; a session of the
\* daemon is closed only in the reload at the top of an iteration or in the
\* finally clause after the loop, never while a cycle polls.
C24_SignalsOnlySetFlags ==
    /\ [][C24_SignalStep]_vars
    /\ []((mode = "daemon" /\ pc \in {"check_reload", "poll", "sleep", "run_top"})
             => \A k \in 1..Len(profiles) : profiles[k].closes = 0)
    /\ [][(mode = "daemon" /\ C24_ClosesSession)
             => (pc \in {"reload_close", "finally"} /\ pc' = pc)]_vars
    /\ [][mode = "daemon" => ~C24_CallsClosedSession]_vars

\* C24 witness: a stop and a hang-up have arrived while the cycle polls its
\* second profile; the first has been written and every session is open.
C24_Witness ==
    /\ mode = "daemon"
    /\ pc = "poll"
    /\ i = 2
    /\ ~running
    /\ reload_requested
    /\ stop_at = <<"poll", 2>>
    /\ Len(profiles) = 3
    /\ profiles[1].last_speed # None
    /\ \A k \in 1..3 : profiles[k].closes = 0

\* Whether the step polls profile i and reads temperature t.
ReadsTemp(t) ==
    /\ pc = "poll"
    /\ i <= Len(profiles)
    /\ \E n \in 1..Len(NewCalls) :
          /\ NewCalls[n].op = "getTemp"
          /\ NewCalls[n].ok
          /\ NewCalls[n].arg = t

\* Whether the step calls set_fan_speed.
WritesSpeed == \E n \in 1..Len(NewCalls) : NewCalls[n].op = "setSpeed"

\* C25: with an unchanging temperature sample and every library call
\* succeeding, a profile is written in its first cycle and in no later one:
\* the poll of a profile that was last written at temperature t and reads t
\* again issues no speed write.
C25_OneWriteAtSteadyTemperature ==
    [][\A t \in Temps :
          (ReadsTemp(t) /\ profiles[i].last_temp = Some(t)) => ~WritesSpeed]_vars

\* C26: opening a session fails when the device does not exist or when the
\* fan index is not below the fan count of the device; when the count is
\* not to be had, the query being absent from the library or returning no
\* count, the fan index is not validated and the open does not fail for it.
C26_OpenValidatesFanIfCountKnown ==
    (pc = "session" /\ probe.op = "open")
        => /\ probe.gpu \notin 0..(NumDevices - 1) => ~probe.opened
           /\ probe.outcome = "fan_out_of_range"
                 => (~probe.opened /\ probe.fan >= NumFans)
           /\ (probe.has_numfans /\ probe.opened) => probe.fan < NumFans
           /\ probe.outcome = "numfans_failed" => probe.opened

\* Whether the step makes a library call that fails.
CallFails == \E n \in 1..Len(NewCalls) : ~NewCalls[n].ok

\* Whether the step changes the last-applied state of a profile of the set.
C27_Records(k) ==
    /\ Len(profiles') = Len(profiles)
    /\ k <= Len(profiles)
    /\ profiles'[k].gpu_index = profiles[k].gpu_index
    /\ profiles'[k].fan_index = profiles[k].fan_index
    /\ \/ profiles'[k].last_speed # profiles[k].last_speed
       \/ profiles'[k].last_temp # profiles[k].last_temp

\* A step of a polling cycle: a poll in which get_temperature() or
\* set_fan_speed() fails leaves every profile as it was; the last-applied
\* state of a profile changes only in its own poll, to the temperature read
\* and the speed handed to a set_fan_speed() that succeeded; and whether a
\* poll writes is decided by the gate on the recorded last speed.
C27_PollStep ==
    /\ (pc = "poll" /\ CallFails) => profiles' = profiles
    /\ \A k \in 1..Len(profiles) :
          (pc = "poll" /\ C27_Records(k))
             => /\ k = i
                /\ profiles'[k].last_speed # None
                /\ profiles'[k].last_temp # None
                /\ ReadsTemp(Get(profiles'[k].last_temp))
                /\ \E n \in 1..Len(NewCalls) :
                      /\ NewCalls[n].op = "setSpeed"
                      /\ NewCalls[n].ok
                      /\ NewCalls[n].arg = RoundPercent(Get(profiles'[k].last_speed))
    /\ \A t \in Temps :
          ReadsTemp(t)
             => (WritesSpeed <=> should_apply(profiles[i].last_speed,
                                              profiles[i].hysteresis,
                                              value(profiles[i].curve, t)))

\* C27: a HardwareError of the temperature read or of the speed write leaves
\* the profile's last-applied speed and temperature as they were, the state
\* being recorded only after a write that succeeded; the next cycle decides
\* against the last speed written with success, or writes if there is none.
C27_FailureKeepsLastState == [][C27_PollStep]_vars

\* C27 witness: a profile written in an earlier cycle has been polled again;
\* the write of another speed failed and the recorded state is the earlier
\* one.
C27_Witness ==
    /\ pc = "poll"
    /\ i = 2
    /\ profiles[1].last_speed # None
    /\ \E n \in 1..Len(hwlog) :
          /\ hwlog[n].op = "setSpeed"
          /\ ~hwlog[n].ok
          /\ hwlog[n].gpu = profiles[1].gpu_index
          /\ hwlog[n].fan = profiles[1].fan_index
          /\ hwlog[n].arg # RoundPercent(Get(profiles[1].last_speed))

\* The index in calls of the last set_fan_speed() that succeeded on the
\* session of gpu and fan, 0 if there is none.
RECURSIVE LastWrite(_, _, _)
LastWrite(calls, gpu, fan) ==
    IF calls = <<>> THEN 0
    ELSE LET last == calls[Len(calls)]
         IN  IF last.op = "setSpeed" /\ last.ok /\ last.gpu = gpu /\ last.fan = fan
             THEN Len(calls)
             ELSE LastWrite(SubSeq(calls, 1, Len(calls) - 1), gpu, fan)

\* The recorded last speed of a profile is the speed its last successful
\* write handed to set_fan_speed(), which passes it on rounded to a whole
\* percent.
C28_LastIsLastWritten ==
    \A k \in 1..Len(profiles) :
       profiles[k].last_speed # None
          => LET n == LastWrite(hist, profiles[k].gpu_index,
                                profiles[k].fan_index)
             IN  /\ n > 0
                 /\ hist[n].arg = RoundPercent(Get(profiles[k].last_speed))

\* A poll: a cycle that the gate skips leaves the profile as it was, and a
\* poll of a profile that has been written writes exactly when the target
\* is at least the threshold away from the recorded last speed.
C28_PollStep ==
    \A t \in Temps :
       ReadsTemp(t)
          => /\ ~WritesSpeed => profiles' = profiles
             /\ profiles[i].last_speed # None
                   => (WritesSpeed <=>
                          Abs(value(profiles[i].curve, t)
                              - Get(profiles[i].last_speed))
                             >= Max(MinThreshold, profiles[i].hysteresis))

\* C28: a cycle in which the gate skips the write leaves the last-applied
\* speed and temperature unchanged, so the gate compares each target with
\* the speed of the last write: targets that drift by steps below the
\* threshold are written in the first cycle in which the distance from the
\* last written speed reaches the threshold.
C28_SkipKeepsLastWritten == [](C28_LastIsLastWritten) /\ [][C28_PollStep]_vars

\* C28 witness: with hysteresis 2 the targets 30, 31, 32 of three cycles
\* are written, skipped, written: the third is 1 away from the second
\* target and 2 away from the speed last written.
C28_Witness ==
    /\ Len(hist) = 6
    /\ [n \in 2..6 |-> <<hist[n].op, hist[n].arg, hist[n].ok>>]
          = [n \in 2..6 |->
               << <<"getTemp", 450, TRUE>>, <<"setSpeed", 30, TRUE>>,
                  <<"getTemp", 455, TRUE>>, <<"getTemp", 600, TRUE>>,
                  <<"setSpeed", 32, TRUE>> >>[n - 1]]
    /\ profiles[1].last_speed = Some(320)
    /\ profiles[1].last_temp = Some(600)

\* A profile as build_managed_profiles creates it: nothing applied yet and
\* the session open.
Fresh(p) == p.last_speed = None /\ p.last_temp = None /\ p.closes = 0

\* Whether calls holds a call op of the session of profile p, and one that
\* succeeded.
Called(calls, op, p) ==
    \E n \in 1..Len(calls) :
       calls[n].op = op /\ calls[n].gpu = p.gpu_index /\ calls[n].fan = p.fan_index
CalledOk(calls, op, p) ==
    \E n \in 1..Len(calls) :
       /\ calls[n].op = op /\ calls[n].ok
       /\ calls[n].gpu = p.gpu_index /\ calls[n].fan = p.fan_index

\* A successful reload leaves a set of fresh profiles, and the profiles the
\* cycle that follows it has not polled yet are still fresh.
C29_NewSetFresh ==
    /\ (pc = "reload_clear" /\ reload_result = "ok")
          => \A k \in 1..Len(profiles) : Fresh(profiles[k])
    /\ (pc = "poll" /\ after_reload)
          => \A k \in i..Len(profiles) : Fresh(profiles[k])

\* A step of the iteration of a successful reload: run() goes from the reload
\* to the polling cycle with the new set, the poll of a profile whose
\* temperature is read issues a speed write, and the cycle ends, and run()
\* sleeps, only after every profile has been polled.
C29_CycleStep ==
    /\ (pc = "reload_clear" /\ reload_result = "ok" /\ pc' # pc)
          => (pc' = "poll" /\ i' = 1 /\ profiles' = profiles /\ after_reload')
    /\ (pc = "poll" /\ after_reload /\ i <= Len(profiles)
          /\ CalledOk(NewCalls, "getTemp", profiles[i]))
          => Called(NewCalls, "setSpeed", profiles[i])
    /\ (pc = "poll" /\ after_reload /\ i' # i)
          => IF i <= Len(profiles) THEN i' = i + 1 /\ pc' = "poll"
             ELSE pc' = "sleep"
    /\ (pc = "poll" /\ after_reload /\ pc' # pc)
          => (i > Len(profiles) /\ pc' = "sleep")

\* C29: after a successful reload every profile of the new set has no
\* last-applied state, and the polling cycle of the same iteration issues a
\* speed write for every new profile whose temperature read succeeds,
\* before run() sleeps, whether or not the configuration changed.
C29_ReloadForcesWrites == [](C29_NewSetFresh) /\ [][C29_CycleStep]_vars

\* C29 witness: the cycle after a successful reload has written the speed of
\* the three profiles of the new set, in a daemon that hands the fans of the
\* old set back to the driver when it closes them.
C29_Witness ==
    /\ pc = "poll"
    /\ after_reload
    /\ restore_on_exit
    /\ Len(profiles) = 3
    /\ i = 4
    /\ \A k \in 1..3 : /\ profiles[k].last_speed # None
                       /\ CalledOk(hwlog, "setSpeed", profiles[k])

\* C30: no reload request is lost: after a SIGHUP that reaches the running
\* daemon, unless a stop follows, a reload attempt whose load_config()
\* begins after the signal eventually takes place, also when the signal
\* arrives while reload_config() is executing.
C30_NoReloadRequestLost ==
    (mode = "daemon" /\ running /\ hup_pending = "yes")
        ~> (hup_pending = "no" \/ ~running)

\* The sessions the daemon holds open: those of the live profiles that are
\* not closed and those of the profiles build_managed_profiles has built.
OpenSessions ==
    {<<"live", k>> : k \in {n \in 1..Len(profiles) : profiles[n].closes = 0}}
    \cup {<<"new", k>> : k \in 1..Len(new_profiles)}

\* The fan a session drives.
FanOf(session) ==
    LET p == IF session[1] = "live" THEN profiles[session[2]]
             ELSE new_profiles[session[2]]
    IN  <<p.gpu_index, p.fan_index>>

\* C31: at every instant the daemon holds at most one open session per fan
\* (gpu_index, fan_index), also during a reload whose new configuration
\* keeps a fan that the live set manages.
C31_OneOpenSessionPerFan ==
    mode = "daemon"
        => \A a \in OpenSessions, b \in OpenSessions :
              FanOf(a) = FanOf(b) => a = b

=============================================================================
